---------------------------- MODULE Spec2Model ----------------------------
(***************************************************************************)
(* Model of the ESP32 sensor node firmware (jakubpolski/iiot).             *)
(*                                                                         *)
(* This part covers the network-session layer: the long-lived task         *)
(* mqtt_task (esp32/src/main.rs), Mqtt::connect (esp32/src/mqtt.rs), the   *)
(* two bounded mailboxes MQTT_CMD_CHANNEL / MQTT_RESP_CHANNEL between the  *)
(* orchestrator (Ui) and the session manager, and the orchestrator         *)
(* operations that touch them (Ui::send, the MQTT branch of                *)
(* Ui::toggle_selected, the receipt of an MqttResponse in the UI loop).    *)
(*                                                                         *)
(* Further parts cover the DHT11 decoder (esp32/src/dht11.rs), the         *)
(* debounced input sources (button, motion and contact tasks of main.rs),  *)
(* the configuration screens and the UI loop (esp32/src/ui.rs, main.rs)    *)
(* and the downstream service (server/src/main.rs).                        *)
(*                                                                         *)
(* One action is one run of a task between two suspension points (.await). *)
(* The executor is single-core and cooperative, so the code between two    *)
(* awaits of a task is atomic.                                             *)
(***************************************************************************)
EXTENDS Naturals, Sequences, FiniteSets

VARIABLES
    \* ---- mqtt_task locals (main.rs 149-157) and its position
    pc,                  \* the await mqtt_task is suspended at
    should_reconnect,    \* main.rs 154
    cached_message,      \* main.rs 155: Option<MqttMessage>, <<>> or <<m>>
    already_sent_error,  \* main.rs 156
    idle5,               \* last_ping.elapsed().as_secs() >= 5 (main.rs 157, 175)
    msg,                 \* the message bound by the while-let (main.rs 194)
    \* ---- struct Mqtt and the locals of Mqtt::connect (mqtt.rs 55-118)
    client,              \* Mqtt::client: "None" or "Some"
    live,                \* live locals of connect() that borrow the static buffers
    dirty,               \* static buffers written since they were last zeroed
    connect_result,      \* what the last connect() returned
    \* ---- event fabric
    cmdq,                \* MQTT_CMD_CHANNEL (mqtt.rs 30)
    respq,               \* MQTT_RESP_CHANNEL (mqtt.rs 31)
    MQTT_ENABLED,        \* ui.rs 34
    \* ---- orchestrator
    ui_todo,             \* messages the running handler still passes to Ui::send
    \* ---- environment
    netUp,               \* the transport accepts the operation that completes now
    \* ---- history (not program state)
    nextId,              \* sequence number of the next request accepted by the mailbox
    lastOk,              \* sequence number of the last request sent successfully
    ep,                  \* counters of the request whose send was attempted last
    session              \* Disconnected / Connecting / Connected (spec 4.4)

mqttVars == <<pc, should_reconnect, cached_message, already_sent_error, idle5, msg>>
connVars == <<client, live, dirty, connect_result>>
fabricVars == <<cmdq, respq, MQTT_ENABLED>>
histVars == <<nextId, lastOk, ep, session>>
vars == <<mqttVars, connVars, fabricVars, ui_todo, netUp, histVars>>

VARIABLES
    \* ---- struct Dht11 and the locals of read / read_with_retry (dht11.rs)
    dpc,                 \* where the task that called read_with_retry stands
    buffer,              \* Dht11::buffer (dht11.rs 22), bytes 0..4 at 1..5
    byte,                \* dht11.rs 57: the byte being filled, 0..4
    bit,                 \* dht11.rs 59: the bit being filled, 7 down to 0
    cs,                  \* inside critical_section::with (dht11.rs 41-75)
    read_result,         \* what the last read() returned
    retry_count,         \* dht11.rs 92
    attempt,             \* dht11.rs 94: the loop variable i
    last_error,          \* dht11.rs 93
    ret,                 \* what the last read_with_retry() returned
    \* ---- environment of the sensor line
    frame,               \* the 5 bytes the sensor transmits in this read
    other,               \* flipped whenever another task or an interrupt handler runs
    \* ---- history (not program state)
    waited,              \* clock reading at which the last wait_for_level ended
    high_time,           \* dht11.rs 65: the last measured pulse
    reads,               \* read() calls of the running read_with_retry
    sleeps,              \* 100 ms waits of the running read_with_retry
    errs                 \* the errors of its reads, oldest first

dhtVars == <<dpc, buffer, byte, bit, cs, read_result, retry_count, attempt, last_error,
             ret, frame, other, waited, high_time, reads, sleeps, errs>>

VARIABLES
    \* ---- the input sources (main.rs 68-146) and their mailboxes (ui.rs 23-33)
    spc,                 \* per source: the await its task is suspended at
    pin,                 \* per source: the line is at its active level
    enabled,             \* MOTION_ENABLED / CONTACT_ENABLED (ui.rs 32-33)
    buttonq,             \* BUTTON_CHANNEL (ui.rs 23)
    sensorq,             \* SENSOR_CHANNEL (ui.rs 24)
    read_delay,          \* MOTION_READ_DELAY / CONTACT_READ_DELAY (ui.rs 29-30)
    timer,               \* per sensor: whole seconds left of the Timer::after_secs
                         \* its task sleeps in (main.rs 110, 121)
    \* ---- history (not program state)
    bounced,             \* per source: the line left its active level during the
                         \* debounce window that is running or ended last
    toggles,             \* level changes of all lines so far
    armed,               \* per sensor: the read delay loaded after its last alert
                         \* was accepted by the mailbox (0: no alert yet)
    since                \* per sensor: whole seconds since its last alert was
                         \* accepted, counted up to armed

srcVars == <<spc, pin, enabled, buttonq, sensorq, read_delay, timer,
             bounced, toggles, armed, since>>

VARIABLES
    \* ---- struct Ui (ui.rs 188-208, 214-232)
    ui_state,            \* Ui::state
    selection,           \* Ui::selection
    dht_delay,           \* Ui::dht_delay
    dht_enabled,         \* Ui::dht_enabled
    ui_panic,            \* the message of the panic that stopped the orchestrator,
                         \* "" while it runs
    \* ---- history (not program state)
    handling,            \* the event whose handler the UI loop started last:
                         \* <<>> or <<kind, event>>
    presses              \* button events accepted by BUTTON_CHANNEL so far

uiVars == <<ui_state, selection, dht_delay, dht_enabled, ui_panic, handling, presses>>

VARIABLES
    \* ---- downstream service (server/src/main.rs)
    LAST_SENT_TIMES,     \* static LAST_SENT_TIMES: topic -> Instant of the last mail sent
    srv_clock,           \* the monotonic clock read by Instant::now(), in seconds
    srv_msg,             \* the publish handled last: its topic and payload, the
                         \* Instant taken for it, and how far its handling got
    \* ---- history (not program state)
    sentLog              \* <<topic, Instant>> of every mail the relay accepted

srvVars == <<LAST_SENT_TIMES, srv_clock, srv_msg, sentLog>>

VARIABLES
    \* ---- struct Ui, the part Ui::tick keeps for the DHT (ui.rs 370-405)
    current_values,      \* Ui::current_values: temperature and humidity
    dht_tracker,         \* Ui::read_trackers.dht: time and handled
    tick_pc,             \* "dht" while Ui::tick awaits read_with_retry, else "none"
    ui_now               \* the clock read by Instant::now(), in seconds

tickVars == <<current_values, dht_tracker, tick_pc, ui_now>>

\* everything outside the network-session layer
deviceVars == <<dhtVars, srcVars, uiVars, srvVars, tickVars>>
\* everything outside the DHT11 decoder / outside the input sources
offDht == <<vars, srcVars, uiVars, srvVars, tickVars>>
offSrc == <<vars, dhtVars, uiVars, srvVars, tickVars>>
\* what no action of the orchestrator touches
offUi == <<dhtVars, srvVars, tickVars>>
\* what no tick touches
offTick == <<dhtVars, srvVars>>
\* the whole firmware
nodeVars == <<vars, dhtVars, srcVars, uiVars, tickVars>>

----------------------------------------------------------------------------
\* Program constants

\* MQTT_CMD_CHANNEL: Channel<_, MqttMessage, 20>
CMD_CAP == 20
\* MQTT_RESP_CHANNEL: Channel<_, MqttResponse, 20>
RESP_CAP == 20

\* Bounds of the model
\* requests the orchestrator hands to the mailbox in one run
MaxReq == 3
\* requests handed to the mailbox in a run of SpecFill (one more than CMD_CAP
\* is needed to see a producer suspended on the full mailbox)
MaxFill == 21
\* requests handed to the mailbox in a run of SpecLive
MaxLive == 2
\* requests handed to the mailbox in a run of SpecCycle (both mailboxes full, one
\* request held by each of the two tasks)
MaxCycle == 42

\* enum ValueType (ui.rs 70-75)
ValueType == {"Humidity", "Temperature", "Motion", "Contact"}
\* enum SensorMessage (main.rs 97-100)
SensorMessage == {"MotionSensor", "ContactSensor"}
\* the four static buffers of mqtt.rs 23-28
Buffers == {"RX_BUFFER", "TX_BUFFER", "RECV_BUFFER", "WRITE_BUFFER"}
\* readings the DHT11 delivers in the model: (temperature, humidity)
Readings == {<<21, 40>>}

\* struct MqttMessage (mqtt.rs 130-133); id is the sequence number given on entry
\* to the mailbox (history, not a field of the struct)
MqttMessage(i, t, v) == [id |-> i, topic |-> t, value |-> v]
\* struct MqttResponse (mqtt.rs 124-127)
MqttResponse(ok, t) == [status |-> ok, topic |-> t]

\* objects that hold a reference into the static buffers
Holders == live \cup (IF client = "Some" THEN {"mqtt.client"} ELSE {})

\* history of one request on the wire: send attempts begun, attempts that failed,
\* outcomes emitted for it (counters saturate at 2) and the topics those outcomes
\* carried
NewEpisode(i, t) ==
    [id |-> i, topic |-> t, sends |-> 0, fails |-> 0, failOuts |-> 0, okOuts |-> 0,
     outTopics |-> {}]
Sat2(n) == IF n >= 2 THEN 2 ELSE n + 1

\* dht11.rs 16
DHT_BUFFER_SIZE == 5
\* read_with_retry is called with retry_count in 1..MaxRetry (ui.rs 377 passes 3)
MaxRetry == 3

\* BUTTON_CHANNEL: Channel<_, ButtonType, 10>
BUTTON_CAP == 10
\* SENSOR_CHANNEL: Channel<_, SensorMessage, 1>
SENSOR_CAP == 1
\* level changes of the input lines in one run
MaxToggles == 4
\* ui.rs 26-27
GENERIC_MIN_READ_DELAY == 2
GENERIC_MAX_READ_DELAY == 30
\* the largest read delay the user selects in runs of the input sources
MaxDelay == 3
\* button events in one run of the UI loop
MaxPresses == 3
\* main.rs 110: Timer::after_secs(1) of a disabled sensor
POLL_SECS == 1

\* server/src/main.rs 28: const COOLDOWN_DURATION: Duration = Duration::from_secs(600)
COOLDOWN_DURATION == 600
\* the clock of the downstream service stops here
MaxClock == 1200
\* the clock of the orchestrator stops here
MaxNow == 4
\* requests the ticks of SpecTick hand to the mailbox in one run; a tick starts
\* only while the four requests it can make fit
MaxTickReq == 6
\* ui.rs 377: self.dht.read_with_retry(3)
TICK_RETRIES == 3

\* the six debounced sources: four buttons (main.rs 90-93), motion, contact
ButtonType == {"A", "B", "C", "D"}
Sources == ButtonType \cup SensorMessage

\* dht11.rs 27-29: Dht11::new, before the first read_with_retry
DhtInit ==
    /\ dpc = "idle"
    /\ buffer = <<0, 0, 0, 0, 0>>
    /\ byte = 0
    /\ bit = 7
    /\ cs = FALSE
    /\ read_result = <<>>
    /\ retry_count = 0
    /\ attempt = 0
    /\ last_error = "NoResponse"
    /\ ret = <<>>
    /\ frame = <<>>
    /\ other = FALSE
    /\ waited = 0
    /\ high_time = 0
    /\ reads = 0
    /\ sleeps = 0
    /\ errs = <<>>

\* main.rs 75-80, 104-114, ui.rs 23-33: every source task waits for its line, both
\* sensors are enabled, the mailboxes are empty
SrcInit ==
    /\ spc = [s \in Sources |-> "wait"]
    /\ pin = [s \in Sources |-> FALSE]
    /\ enabled = [s \in SensorMessage |-> TRUE]
    /\ buttonq = <<>>
    /\ sensorq = <<>>
    /\ read_delay = [s \in SensorMessage |-> GENERIC_MIN_READ_DELAY]
    /\ timer = [s \in SensorMessage |-> 0]
    /\ bounced = [s \in Sources |-> FALSE]
    /\ toggles = 0
    /\ armed = [s \in SensorMessage |-> 0]
    /\ since = [s \in SensorMessage |-> 0]

\* ui.rs 214-228: Ui::new
UiInit ==
    /\ ui_state = "Displaying"
    /\ selection = "DHT"
    /\ dht_delay = GENERIC_MIN_READ_DELAY
    /\ dht_enabled = TRUE
    /\ ui_panic = ""
    /\ handling = <<>>
    /\ presses = 0

\* server/src/main.rs 27: LAST_SENT_TIMES starts as an empty map
SrvInit ==
    /\ LAST_SENT_TIMES = <<>>
    /\ srv_clock = 0
    /\ srv_msg = [topic |-> "", payload |-> "", at |-> 0, outcome |-> "none"]
    /\ sentLog = {}

\* ui.rs 185-192, 127-129: CurrentValues::new, Tracker::new
TickInit ==
    /\ current_values = [temperature |-> 255, humidity |-> 255]
    /\ dht_tracker = [time |-> 0, handled |-> TRUE]
    /\ tick_pc = "none"
    /\ ui_now = 0

----------------------------------------------------------------------------
Init ==
    /\ SrvInit
    /\ TickInit
    /\ pc = "sleep"
    /\ should_reconnect = TRUE
    /\ cached_message = <<>>
    /\ already_sent_error = FALSE
    /\ idle5 = FALSE
    /\ msg = <<>>
    /\ client = "None"
    /\ live = {}
    /\ dirty = {}
    /\ connect_result = "none"
    /\ cmdq = <<>>
    /\ respq = <<>>
    /\ MQTT_ENABLED = TRUE
    /\ ui_todo = <<>>
    /\ netUp \in BOOLEAN
    /\ nextId = 1
    /\ lastOk = 0
    /\ ep = NewEpisode(0, "none")
    /\ session = "Disconnected"
    /\ DhtInit
    /\ SrcInit
    /\ UiInit

----------------------------------------------------------------------------
\* mqtt_task (main.rs 148-230)

\* main.rs 199: mqtt.client.as_mut().expect("Client uninitialized"), then the
\* send_message await of main.rs 202-207
Attempt(c) == IF c = "Some" THEN "send" ELSE "panicked"

\* history: the episode of a request stays open until its send succeeded; a request
\* put on the wire after that starts a new episode
EpisodeOpen == ep.id # 0 /\ lastOk # ep.id
EpisodeOnTake(m, c) ==
    IF c = "None" THEN ep
    ELSE IF EpisodeOpen THEN [ep EXCEPT !.sends = Sat2(@)]
    ELSE [NewEpisode(m.id, m.topic) EXCEPT !.sends = 1]

\* (mutant of DrainHead) the mailbox is asked first and the cached message is left
\* in its slot
DrainHeadMailboxFirst(cm, c) ==
    /\ pc' = "recv"
    /\ msg' = <<>>
    /\ cached_message' = cm
    /\ ep' = ep

\* main.rs 194-197: the head of the flushing loop, given the cached message cm and
\* the client c: the cached message is taken if there is one, else the task waits
\* on the mailbox (with_timeout of 5 s)
DrainHead(cm, c) ==
    IF cm # <<>>
    THEN /\ pc' = Attempt(c)
         /\ msg' = cm
         /\ cached_message' = <<>>
         /\ ep' = EpisodeOnTake(cm[1], c)
    ELSE /\ pc' = "recv"
         /\ msg' = <<>>
         /\ cached_message' = <<>>
         /\ ep' = ep

\* (mutant of FlagStage) the publishing-enabled flag is not looked at
FlagStageIgnoreFlag(cm, c) == DrainHead(cm, c)

\* main.rs 188-191: the publishing-enabled check, then the flushing loop
FlagStage(cm, c) ==
    IF ~MQTT_ENABLED
    THEN /\ pc' = "sleep"
         /\ msg' = <<>>
         /\ cached_message' = cm
         /\ ep' = ep
    ELSE DrainHead(cm, c)

\* (mutant of TickReconnect) connect() does not delete the old client first
TickReconnectKeepClient ==
    /\ pc = "sleep"
    /\ should_reconnect
    /\ pc' = "connect_clear"
    /\ session' = "Connecting"
    /\ UNCHANGED <<should_reconnect, cached_message, already_sent_error, idle5, msg>>
    /\ UNCHANGED <<client, live, dirty, connect_result>>
    /\ UNCHANGED <<fabricVars, ui_todo, netUp, nextId, lastOk, ep>>
    /\ UNCHANGED deviceVars

\* main.rs 160-162 with should_reconnect set: the 500 ms timer fires, connect() is
\* entered and deletes the old client (mqtt.rs 72-74)
TickReconnect ==
    /\ pc = "sleep"
    /\ should_reconnect
    /\ pc' = "connect_clear"
    /\ client' = "None"
    /\ session' = "Connecting"
    /\ UNCHANGED <<should_reconnect, cached_message, already_sent_error, idle5, msg>>
    /\ UNCHANGED <<live, dirty, connect_result>>
    /\ UNCHANGED <<fabricVars, ui_todo, netUp, nextId, lastOk, ep>>
    /\ UNCHANGED deviceVars

\* mqtt.rs 76-94: the four buffers are taken with assume_exclusive and zeroed, the
\* socket is created over RX_BUFFER/TX_BUFFER; the task then awaits socket.connect
ConnectClear ==
    /\ pc = "connect_clear"
    /\ dirty' = {}
    /\ live' = {"socket"}
    /\ pc' = "connect_tcp"
    /\ UNCHANGED <<should_reconnect, cached_message, already_sent_error, idle5, msg>>
    /\ UNCHANGED <<client, connect_result>>
    /\ UNCHANGED <<fabricVars, ui_todo, netUp, histVars>>
    /\ UNCHANGED deviceVars

\* (mutant of ConnectTcp) a failed socket.connect ends the task's loop instead of
\* continuing it
ConnectTcpGiveUp ==
    /\ pc = "connect_tcp"
    /\ IF netUp
       THEN /\ live' = {"client"}
            /\ pc' = "connect_handshake"
            /\ UNCHANGED <<connect_result, session>>
       ELSE /\ live' = {}
            /\ connect_result' = "ConnectionFailed"
            /\ pc' = "returned"
            /\ session' = "Disconnected"
    /\ UNCHANGED <<should_reconnect, cached_message, already_sent_error, idle5, msg>>
    /\ UNCHANGED <<client, dirty>>
    /\ UNCHANGED <<fabricVars, ui_todo, netUp, nextId, lastOk, ep>>
    /\ UNCHANGED deviceVars

\* mqtt.rs 95-112: socket.connect(MQTT_ENDPOINT).await?  On Ok the socket and the
\* two protocol buffers move into the new client; on Err the socket is dropped and
\* connect returns ConnectionFailed (mqtt.rs 47-51), mqtt_task logs and continues
\* (main.rs 168-171)
ConnectTcp ==
    /\ pc = "connect_tcp"
    /\ IF netUp
       THEN /\ live' = {"client"}
            /\ pc' = "connect_handshake"
            /\ UNCHANGED <<connect_result, session>>
       ELSE /\ live' = {}
            /\ connect_result' = "ConnectionFailed"
            /\ pc' = "sleep"
            /\ session' = "Disconnected"
    /\ UNCHANGED <<should_reconnect, cached_message, already_sent_error, idle5, msg>>
    /\ UNCHANGED <<client, dirty>>
    /\ UNCHANGED <<fabricVars, ui_todo, netUp, nextId, lastOk, ep>>
    /\ UNCHANGED deviceVars

\* (mutant of ConnectHandshake) the client is stored before the handshake, so a
\* failed handshake leaves it in place
ConnectHandshakeStoreEarly ==
    /\ pc = "connect_handshake"
    /\ live' = {}
    /\ client' = "Some"
    /\ IF netUp
       THEN /\ dirty' = Buffers
            /\ connect_result' = "Ok"
            /\ should_reconnect' = FALSE
            /\ idle5' = FALSE
            /\ session' = "Connected"
            /\ FlagStage(cached_message, "Some")
       ELSE /\ dirty' = dirty \cup {"WRITE_BUFFER", "TX_BUFFER"}
            /\ connect_result' = "ProtocolError"
            /\ pc' = "sleep"
            /\ session' = "Disconnected"
            /\ UNCHANGED <<should_reconnect, idle5, cached_message, msg, ep>>
    /\ UNCHANGED <<already_sent_error, fabricVars, ui_todo, netUp, nextId, lastOk>>
    /\ UNCHANGED deviceVars

\* mqtt.rs 113-117: client.connect_to_broker().await?  On Ok the client is stored
\* and mqtt_task clears should_reconnect and restarts last_ping (main.rs 164-167);
\* the ping stage then finds elapsed < 5 s and the task goes on to main.rs 188.
\* On Err the client is dropped and connect returns ProtocolError (mqtt.rs 41-45)
ConnectHandshake ==
    /\ pc = "connect_handshake"
    /\ live' = {}
    /\ IF netUp
       THEN /\ dirty' = Buffers
            /\ client' = "Some"
            /\ connect_result' = "Ok"
            /\ should_reconnect' = FALSE
            /\ idle5' = FALSE
            /\ session' = "Connected"
            /\ FlagStage(cached_message, "Some")
       ELSE /\ dirty' = dirty \cup {"WRITE_BUFFER", "TX_BUFFER"}
            /\ connect_result' = "ProtocolError"
            /\ pc' = "sleep"
            /\ session' = "Disconnected"
            /\ UNCHANGED <<client, should_reconnect, idle5, cached_message, msg, ep>>
    /\ UNCHANGED <<already_sent_error, fabricVars, ui_todo, netUp, nextId, lastOk>>
    /\ UNCHANGED deviceVars

\* (mutant of TickConnected) the pinging stage is left out
TickConnectedNoPing ==
    /\ pc = "sleep"
    /\ ~should_reconnect
    /\ FlagStage(cached_message, client)
    /\ UNCHANGED <<should_reconnect, already_sent_error, idle5>>
    /\ UNCHANGED <<connVars, fabricVars, ui_todo, netUp, nextId, lastOk, session>>
    /\ UNCHANGED deviceVars

\* main.rs 160-191 with should_reconnect clear: the 500 ms timer fires, the
\* reconnection stage is skipped; a keep-alive is due when 5 s have passed
TickConnected ==
    /\ pc = "sleep"
    /\ ~should_reconnect
    /\ IF idle5 /\ client = "Some"
       THEN /\ pc' = "ping"
            /\ UNCHANGED <<msg, cached_message, ep>>
       ELSE FlagStage(cached_message, client)
    /\ UNCHANGED <<should_reconnect, already_sent_error, idle5>>
    /\ UNCHANGED <<connVars, fabricVars, ui_todo, netUp, nextId, lastOk, session>>
    /\ UNCHANGED deviceVars

\* (mutant of PingDone) a failed ping does not ask for a reconnect
PingDoneNoReconnect ==
    /\ pc = "ping"
    /\ IF netUp
       THEN /\ idle5' = FALSE
            /\ dirty' = Buffers
            /\ FlagStage(cached_message, client)
            /\ UNCHANGED <<should_reconnect, session>>
       ELSE /\ dirty' = dirty \cup {"WRITE_BUFFER", "TX_BUFFER"}
            /\ pc' = "sleep"
            /\ session' = "Disconnected"
            /\ UNCHANGED <<should_reconnect, idle5, msg, cached_message, ep>>
    /\ UNCHANGED <<already_sent_error, client, live, connect_result>>
    /\ UNCHANGED <<fabricVars, ui_todo, netUp, nextId, lastOk>>
    /\ UNCHANGED deviceVars

\* main.rs 178-185: client.send_ping().await
PingDone ==
    /\ pc = "ping"
    /\ IF netUp
       THEN /\ idle5' = FALSE
            /\ dirty' = Buffers
            /\ FlagStage(cached_message, client)
            /\ UNCHANGED <<should_reconnect, session>>
       ELSE /\ should_reconnect' = TRUE
            /\ dirty' = dirty \cup {"WRITE_BUFFER", "TX_BUFFER"}
            /\ pc' = "sleep"
            /\ session' = "Disconnected"
            /\ UNCHANGED <<idle5, msg, cached_message, ep>>
    /\ UNCHANGED <<already_sent_error, client, live, connect_result>>
    /\ UNCHANGED <<fabricVars, ui_todo, netUp, nextId, lastOk>>
    /\ UNCHANGED deviceVars

\* main.rs 196: command_receiver.receive() completes inside with_timeout
Receive ==
    /\ pc = "recv"
    /\ cmdq # <<>>
    /\ msg' = <<Head(cmdq)>>
    /\ cmdq' = Tail(cmdq)
    /\ pc' = Attempt(client)
    /\ ep' = EpisodeOnTake(Head(cmdq), client)
    /\ UNCHANGED <<should_reconnect, cached_message, already_sent_error, idle5>>
    /\ UNCHANGED <<connVars, respq, MQTT_ENABLED, ui_todo, netUp, nextId, lastOk, session>>
    /\ UNCHANGED deviceVars

\* (mutant of ReceiveTimeout) a receive without timeout: the task stays suspended
\* on the empty mailbox
ReceiveForever ==
    /\ pc = "recv"
    /\ cmdq = <<>>
    /\ UNCHANGED vars
    /\ UNCHANGED deviceVars

\* main.rs 196: with_timeout(5 s) expires on an empty mailbox: the while-let ends
\* and the outer loop starts its next round; 5 s have passed since last_ping
ReceiveTimeout ==
    /\ pc = "recv"
    /\ cmdq = <<>>
    /\ pc' = "sleep"
    /\ idle5' = TRUE
    /\ UNCHANGED <<should_reconnect, cached_message, already_sent_error, msg>>
    /\ UNCHANGED <<connVars, fabricVars, ui_todo, netUp, histVars>>
    /\ UNCHANGED deviceVars

\* main.rs 211 / 218: the response built for message m
Outcome(ok, m) == MqttResponse(ok, m.topic)

\* (mutants of ReportsError) the test of main.rs 216 inverted / left out
ReportsErrorInverted(flag) == flag
ReportsErrorAlways(flag) == TRUE

\* main.rs 216: whether a failed send is reported to the UI
ReportsError(flag) == ~flag

\* main.rs 202-224: client.send_message(..).await returns.
\*   Ok:  already_sent_error is cleared, the task goes on to send the Ok response.
\*   Err: the first failure of an episode goes on to send the Err response; a
\*        repeated one caches the message, asks for a reconnect and breaks.
SendDone ==
    /\ pc = "send"
    /\ IF netUp
       THEN /\ already_sent_error' = FALSE
            /\ dirty' = Buffers
            /\ pc' = "resp_ok"
            /\ lastOk' = msg[1].id
            /\ UNCHANGED <<msg, cached_message, should_reconnect, ep, session>>
       ELSE /\ dirty' = dirty \cup {"WRITE_BUFFER", "TX_BUFFER"}
            /\ ep' = [ep EXCEPT !.fails = Sat2(@)]
            /\ session' = "Disconnected"
            /\ lastOk' = lastOk
            /\ IF ReportsError(already_sent_error)
               THEN /\ already_sent_error' = TRUE
                    /\ pc' = "resp_err"
                    /\ UNCHANGED <<msg, cached_message, should_reconnect>>
               ELSE /\ cached_message' = msg
                    /\ should_reconnect' = TRUE
                    /\ msg' = <<>>
                    /\ pc' = "sleep"
                    /\ UNCHANGED already_sent_error
    /\ UNCHANGED <<idle5, client, live, connect_result>>
    /\ UNCHANGED <<fabricVars, ui_todo, netUp, nextId>>
    /\ UNCHANGED deviceVars

\* (mutant of RespondOk) the message is put back into the cache after its Ok response
RespondOkRequeue ==
    /\ pc = "resp_ok"
    /\ Len(respq) < RESP_CAP
    /\ respq' = Append(respq, Outcome(TRUE, msg[1]))
    /\ ep' = [ep EXCEPT !.okOuts = Sat2(@),
                        !.outTopics = @ \cup {Outcome(TRUE, msg[1]).topic}]
    /\ idle5' = FALSE
    /\ cached_message' = msg
    /\ msg' = <<>>
    /\ pc' = "yield"
    /\ UNCHANGED <<should_reconnect, already_sent_error>>
    /\ UNCHANGED <<connVars, cmdq, MQTT_ENABLED, ui_todo, netUp, nextId, lastOk, session>>
    /\ UNCHANGED deviceVars

\* main.rs 211-212, 227: response_sender.send(Ok response).await completes (it
\* suspends while MQTT_RESP_CHANNEL is full), last_ping restarts, and the task
\* sleeps 10 ms
RespondOk ==
    /\ pc = "resp_ok"
    /\ Len(respq) < RESP_CAP
    /\ respq' = Append(respq, Outcome(TRUE, msg[1]))
    /\ ep' = [ep EXCEPT !.okOuts = Sat2(@),
                        !.outTopics = @ \cup {Outcome(TRUE, msg[1]).topic}]
    /\ idle5' = FALSE
    /\ msg' = <<>>
    /\ pc' = "yield"
    /\ UNCHANGED <<should_reconnect, cached_message, already_sent_error>>
    /\ UNCHANGED <<connVars, cmdq, MQTT_ENABLED, ui_todo, netUp, nextId, lastOk, session>>
    /\ UNCHANGED deviceVars

\* (mutant of RespondErr) the failed message is not cached
RespondErrNoCache ==
    /\ pc = "resp_err"
    /\ Len(respq) < RESP_CAP
    /\ respq' = Append(respq, Outcome(FALSE, msg[1]))
    /\ ep' = [ep EXCEPT !.failOuts = Sat2(@),
                        !.outTopics = @ \cup {Outcome(FALSE, msg[1]).topic}]
    /\ should_reconnect' = TRUE
    /\ msg' = <<>>
    /\ pc' = "sleep"
    /\ UNCHANGED <<cached_message, already_sent_error, idle5>>
    /\ UNCHANGED <<connVars, cmdq, MQTT_ENABLED, ui_todo, netUp, nextId, lastOk, session>>
    /\ UNCHANGED deviceVars

\* main.rs 218-223: response_sender.send(Err response).await completes, then the
\* message is cached, a reconnect is asked for and the flushing loop is left
RespondErr ==
    /\ pc = "resp_err"
    /\ Len(respq) < RESP_CAP
    /\ respq' = Append(respq, Outcome(FALSE, msg[1]))
    /\ ep' = [ep EXCEPT !.failOuts = Sat2(@),
                        !.outTopics = @ \cup {Outcome(FALSE, msg[1]).topic}]
    /\ cached_message' = msg
    /\ should_reconnect' = TRUE
    /\ msg' = <<>>
    /\ pc' = "sleep"
    /\ UNCHANGED <<already_sent_error, idle5>>
    /\ UNCHANGED <<connVars, cmdq, MQTT_ENABLED, ui_todo, netUp, nextId, lastOk, session>>
    /\ UNCHANGED deviceVars

\* main.rs 227 then 194: the 10 ms timer fires and the while-let evaluates again
Yield ==
    /\ pc = "yield"
    /\ DrainHead(cached_message, client)
    /\ UNCHANGED <<should_reconnect, already_sent_error, idle5>>
    /\ UNCHANGED <<connVars, fabricVars, ui_todo, netUp, nextId, lastOk, session>>
    /\ UNCHANGED deviceVars

\* time: 5 s pass since last_ping while the task sleeps between two rounds (the
\* only place besides the receive timeout where the elapsed time is then read)
Elapse ==
    /\ pc = "sleep"
    /\ ~idle5
    /\ idle5' = TRUE
    /\ UNCHANGED <<pc, should_reconnect, cached_message, already_sent_error, msg>>
    /\ UNCHANGED <<connVars, fabricVars, ui_todo, netUp, histVars>>
    /\ UNCHANGED deviceVars

MqttTask ==
    \/ TickReconnect
    \/ ConnectClear
    \/ ConnectTcp
    \/ ConnectHandshake
    \/ TickConnected
    \/ PingDone
    \/ Receive
    \/ ReceiveTimeout
    \/ SendDone
    \/ RespondOk
    \/ RespondErr
    \/ Yield

\* environment: the link or the broker comes up or goes down
NetChange ==
    /\ netUp' = ~netUp
    /\ UNCHANGED <<mqttVars, connVars, fabricVars, ui_todo, histVars>>
    /\ UNCHANGED deviceVars

----------------------------------------------------------------------------
\* The orchestrator side of the two mailboxes (ui.rs, the UI loop of main.rs)

\* ui.rs 348-362: the request handle_sensor_message passes to Ui::send
SensorRequest(s) ==
    IF s = "MotionSensor" THEN <<MqttMessage(0, "Motion", 1)>>
                          ELSE <<MqttMessage(0, "Contact", 1)>>

\* ui.rs 370-456: the requests one Ui::tick passes to Ui::send, in order: a DHT
\* reading r (<<>> when no read is due or read_with_retry failed) gives
\* temperature then humidity; a motion / contact silence that is due gives a 0
TickRequests(r, motionDue, contactDue) ==
    (IF r = <<>> THEN <<>>
     ELSE <<MqttMessage(0, "Temperature", r[1][1]), MqttMessage(0, "Humidity", r[1][2])>>)
    \o (IF motionDue THEN <<MqttMessage(0, "Motion", 0)>> ELSE <<>>)
    \o (IF contactDue THEN <<MqttMessage(0, "Contact", 0)>> ELSE <<>>)

\* the orchestrator is at the select of the UI loop (main.rs 409), in no handler
UiIdle == ui_todo = <<>> /\ tick_pc = "none"

\* ui.rs 378-403: what the DHT part of a tick does to the current values and to
\* the DHT read tracker.  A reading r resets the tracker and becomes the current
\* values; without one (no read due, or read_with_retry failed) both are kept,
\* but for the tracker being marked handled when no read was due and the blink
\* has lasted a second (blinkOver)
TickDhtEffect(r, blinkOver) ==
    IF r # <<>>
    THEN /\ current_values' = [temperature |-> r[1][1], humidity |-> r[1][2]]
         /\ dht_tracker' = [time |-> ui_now, handled |-> FALSE]
    ELSE /\ current_values' = current_values
         /\ dht_tracker' = IF blinkOver THEN [dht_tracker EXCEPT !.handled = TRUE]
                                        ELSE dht_tracker

\* main.rs 411, ui.rs 339-367: a sensor alert is received and handled
HandleSensorMessage(s) ==
    /\ UiIdle
    /\ ui_todo' = SensorRequest(s)
    /\ UNCHANGED <<mqttVars, connVars, fabricVars, netUp, histVars>>
    /\ UNCHANGED deviceVars

\* main.rs 413, ui.rs 370-456: the 100 ms timer wins the select; it is polled last,
\* so it wins only when no response is waiting in MQTT_RESP_CHANNEL
UiTick(r, motionDue, contactDue) ==
    /\ UiIdle
    /\ respq = <<>>
    /\ TickRequests(r, motionDue, contactDue) # <<>>
    /\ ui_todo' = TickRequests(r, motionDue, contactDue)
    /\ \E blinkOver \in BOOLEAN :
          /\ blinkOver => ~dht_tracker.handled
          /\ TickDhtEffect(r, blinkOver)
    /\ UNCHANGED <<tick_pc, ui_now>>
    /\ UNCHANGED <<mqttVars, connVars, fabricVars, netUp, histVars>>
    /\ UNCHANGED <<dhtVars, srcVars, uiVars, srvVars>>

\* (mutant of UiSend) try_send instead of send: a request offered to a full
\* mailbox is dropped
UiSendTrySend ==
    /\ ui_todo # <<>>
    /\ IF MQTT_ENABLED /\ Len(cmdq) < CMD_CAP
       THEN /\ cmdq' = Append(cmdq, [Head(ui_todo) EXCEPT !.id = nextId])
            /\ nextId' = nextId + 1
       ELSE UNCHANGED <<cmdq, nextId>>
    /\ ui_todo' = Tail(ui_todo)
    /\ UNCHANGED <<mqttVars, connVars, respq, MQTT_ENABLED, netUp, lastOk, ep, session>>
    /\ UNCHANGED deviceVars

\* (mutant of UiSend) the publishing-enabled flag is not looked at
UiSendIgnoreFlag ==
    /\ ui_todo # <<>>
    /\ Len(cmdq) < CMD_CAP
    /\ cmdq' = Append(cmdq, [Head(ui_todo) EXCEPT !.id = nextId])
    /\ nextId' = nextId + 1
    /\ ui_todo' = Tail(ui_todo)
    /\ UNCHANGED <<mqttVars, connVars, respq, MQTT_ENABLED, netUp, lastOk, ep, session>>
    /\ UNCHANGED deviceVars

\* ui.rs 726-733: Ui::send for the next request of the running handler.  With
\* publishing disabled it returns at once; otherwise mqtt_sender.send(msg).await
\* appends to MQTT_CMD_CHANNEL and suspends while the channel is full
UiSend ==
    /\ ui_todo # <<>>
    /\ IF MQTT_ENABLED
       THEN /\ Len(cmdq) < CMD_CAP
            /\ cmdq' = Append(cmdq, [Head(ui_todo) EXCEPT !.id = nextId])
            /\ nextId' = nextId + 1
       ELSE UNCHANGED <<cmdq, nextId>>
    /\ ui_todo' = Tail(ui_todo)
    /\ UNCHANGED <<mqttVars, connVars, respq, MQTT_ENABLED, netUp, lastOk, ep, session>>
    /\ UNCHANGED deviceVars

\* main.rs 412, ui.rs 301-336: a response is received from MQTT_RESP_CHANNEL and
\* handled (the handler only updates the display and a send tracker)
HandleMqttResponse ==
    /\ UiIdle
    /\ respq # <<>>
    /\ respq' = Tail(respq)
    /\ UNCHANGED <<mqttVars, connVars, cmdq, MQTT_ENABLED, ui_todo, netUp, histVars>>
    /\ UNCHANGED deviceVars

\* ui.rs 624-632: toggle_selected with MQTT selected: MQTT_ENABLED.fetch_not
ToggleMqtt ==
    /\ UiIdle
    /\ MQTT_ENABLED' = ~MQTT_ENABLED
    /\ UNCHANGED <<mqttVars, connVars, cmdq, respq, ui_todo, netUp, histVars>>
    /\ UNCHANGED deviceVars

\* the handlers of the orchestrator start only while the run's budget of requests
\* (MaxReq) covers the requests they would send
Orchestrator ==
    \/ \E s \in SensorMessage :
          /\ nextId + Len(SensorRequest(s)) <= MaxReq + 1
          /\ HandleSensorMessage(s)
    \/ \E r \in {<<>>} \cup {<<x>> : x \in Readings}, m \in BOOLEAN, c \in BOOLEAN :
          /\ nextId + Len(TickRequests(r, m, c)) <= MaxReq + 1
          /\ UiTick(r, m, c)
    \/ UiSend
    \/ HandleMqttResponse
    \/ ToggleMqtt

Next ==
    \/ MqttTask
    \/ Elapse
    \/ Orchestrator
    \/ NetChange

Spec == Init /\ [][Next]_vars

\* A second environment, for the backpressure of MQTT_CMD_CHANNEL: the broker is
\* unreachable at first and stays reachable once it is up, the motion sensor keeps
\* alerting, publishing stays enabled.  No send fails here, so the Err branch of
\* the flushing loop (RespondErr) is never enabled and is left out.
NetRecover ==
    /\ ~netUp
    /\ netUp' = TRUE
    /\ UNCHANGED <<mqttVars, connVars, fabricVars, ui_todo, histVars>>
    /\ UNCHANGED deviceVars

NextFill ==
    \/ TickReconnect
    \/ ConnectClear
    \/ ConnectTcp
    \/ ConnectHandshake
    \/ TickConnected
    \/ PingDone
    \/ Receive
    \/ ReceiveTimeout
    \/ SendDone
    \/ RespondOk
    \/ Yield
    \/ Elapse
    \/ (nextId <= MaxFill /\ HandleSensorMessage("MotionSensor"))
    \/ UiSend
    \/ HandleMqttResponse
    \/ NetRecover

SpecFill == Init /\ [][NextFill]_vars

\* A third environment, for the progress properties: sensor alerts are the only
\* source of requests (MaxLive of them).  The session manager task is scheduled
\* fairly: the executor polls every task that is ready, its timers expire and its
\* transport operations return (connect has a 10 s timeout), so the task does not
\* stay forever at a step it can take.  Nothing is assumed of the orchestrator, of
\* the user or of the transport.
NextLive ==
    \/ MqttTask
    \/ Elapse
    \/ \E s \in SensorMessage :
          /\ nextId + Len(SensorRequest(s)) <= MaxLive + 1
          /\ HandleSensorMessage(s)
    \/ UiSend
    \/ HandleMqttResponse
    \/ ToggleMqtt
    \/ NetChange

SpecLive == Init /\ [][NextLive]_vars /\ WF_vars(MqttTask)

\* Types of the state
TypeOK ==
    /\ pc \in {"sleep", "connect_clear", "connect_tcp", "connect_handshake", "ping",
               "recv", "send", "resp_ok", "resp_err", "yield", "panicked"}
    /\ should_reconnect \in BOOLEAN
    /\ already_sent_error \in BOOLEAN
    /\ idle5 \in BOOLEAN
    /\ Len(cached_message) <= 1
    /\ Len(msg) <= 1
    /\ client \in {"None", "Some"}
    /\ live \subseteq {"socket", "client"}
    /\ dirty \subseteq Buffers
    /\ connect_result \in {"none", "Ok", "ConnectionFailed", "ProtocolError"}
    /\ MQTT_ENABLED \in BOOLEAN
    /\ netUp \in BOOLEAN
    /\ nextId \in 1..(MaxFill + 1)
    /\ lastOk \in 0..MaxFill
    /\ session \in {"Disconnected", "Connecting", "Connected"}

----------------------------------------------------------------------------
\* The DHT11 decoder (dht11.rs).  Inside critical_section::with nothing else runs,
\* so the waits and the 40 data bits are steps of one task; cs tells when another
\* task or an interrupt handler may run in between.

\* bit b (0 = least significant) of the byte v
BitOf(v, b) == (v \div (2 ^ b)) % 2

\* dht11.rs 68: buffer[byte] |= 1 << bit
SetBit(v, b) == IF BitOf(v, b) = 1 THEN v ELSE v + 2 ^ b

\* dht11.rs 109-117: wait_for_level gives up at the first clock reading above
\* timeout_us taken while the line is not at the level; t is the last reading
\* taken before the level is seen
WaitForLevel(t, timeout_us) == ~(t > timeout_us)

\* dht11.rs 120-133: measure_high_pulse keeps the last clock reading taken while
\* the line was high and stops at the first one above timeout_us; d is how long
\* the line stays high
MeasureHighPulse(d, timeout_us) == IF d > timeout_us THEN timeout_us + 1 ELSE d

\* (mutant of DecodesAsOne) the boundary taken as >=
DecodesAsOneInclusive(h) == h >= 40

\* dht11.rs 67: high_time > 40
DecodesAsOne(h) == h > 40

\* dht11.rs 80: the u8 sum of the first four bytes, before any wrap
Sum4(b) == b[1] + b[2] + b[3] + b[4]

\* the line: clock readings at which it reaches the level a wait_for_level with
\* this timeout waits for (1000: it never does within any timeout)
LevelTimes(timeout_us) == {20, timeout_us, timeout_us + 1, 1000}

\* the line: how long the sensor holds it high for a data bit (dht11.rs 66: around
\* 26-28 us means 0, around 70 us means 1; 1000: the line stays high)
PulseOf(b) == IF b = 1 THEN {41, 70, 1000} ELSE {27, 40}

\* the frames the sensor transmits: data bytes whose sum stays below 256, wraps
\* once or wraps twice, with a checksum byte that is the wrapped sum, one more
\* than it, or the sum saturated at 255
FrameData == {<<a, b, c, d>> : a \in {0, 170, 255}, b \in {0, 85},
                               c \in {0, 170, 255}, d \in {0, 85}}
Checksums(x) == {Sum4(x) % 256, (Sum4(x) + 1) % 256, IF Sum4(x) > 255 THEN 255 ELSE Sum4(x)}
Frames == UNION {{<<x[1], x[2], x[3], x[4], c>> : c \in Checksums(x)} : x \in FrameData}
\* the frames of the runs that exercise the retries
RetryFrames == {<<40, 0, 21, 0, 61>>, <<40, 0, 21, 0, 60>>}

\* (mutant of BeginRead) read() without self.buffer.fill(0)
BeginReadKeepBuffer(r) ==
    /\ buffer' = buffer
    /\ byte' = 0
    /\ bit' = 7
    /\ read_result' = <<>>
    /\ frame' = <<>>
    /\ waited' = 0
    /\ high_time' = 0
    /\ reads' = r + 1
    /\ dpc' = "reset"

\* dht11.rs 33-38: read() up to its first await: the buffer is cleared, the line is
\* driven low and the 20 ms timer is started; r reads were made before.  Nothing
\* of the previous read is left in the locals or in what the line has shown
BeginRead(r) ==
    /\ buffer' = [k \in 1..DHT_BUFFER_SIZE |-> 0]
    /\ byte' = 0
    /\ bit' = 7
    /\ read_result' = <<>>
    /\ frame' = <<>>
    /\ waited' = 0
    /\ high_time' = 0
    /\ reads' = r + 1
    /\ dpc' = "reset"

\* dht11.rs 92-95: read_with_retry(n) is entered and enters its first read()
EnterRetry(n) ==
    /\ dpc = "idle"
    /\ retry_count' = n
    /\ attempt' = 0
    /\ last_error' = "NoResponse"
    /\ ret' = <<>>
    /\ sleeps' = 0
    /\ errs' = <<>>
    /\ BeginRead(0)
    /\ UNCHANGED <<cs, other>>

\* read_with_retry(n) called by a caller the model does not follow
DhtCall(n) ==
    /\ EnterRetry(n)
    /\ UNCHANGED offDht

\* (mutant of Release) the handshake is awaited without the critical section
ReleaseUnprotected ==
    /\ dpc = "reset"
    /\ dpc' = "wait_low1"
    /\ UNCHANGED <<buffer, byte, bit, cs, read_result, retry_count, attempt, last_error,
                   ret, frame, other, waited, high_time, reads, sleeps, errs>>
    /\ UNCHANGED offDht

\* dht11.rs 38-44: the 20 ms timer fires, the critical section is entered, the line
\* is released and switched to input
Release ==
    /\ dpc = "reset"
    /\ cs' = TRUE
    /\ dpc' = "wait_low1"
    /\ UNCHANGED <<buffer, byte, bit, read_result, retry_count, attempt, last_error,
                   ret, frame, other, waited, high_time, reads, sleeps, errs>>
    /\ UNCHANGED offDht

\* (mutant of ReadFails) read_with_retry keeps the first error it saw
ReadFailsKeepFirst(e) ==
    /\ cs' = FALSE
    /\ read_result' = <<"Err", e>>
    /\ last_error' = (IF errs = <<>> THEN e ELSE last_error)
    /\ errs' = Append(errs, e)
    /\ sleeps' = sleeps + 1
    /\ dpc' = "retry_wait"

\* dht11.rs 46/50/54/62/81 then 87, 97-101: read() returns Err(e), leaving the
\* critical section if it is inside; read_with_retry logs, stores the error in
\* last_error and starts the 100 ms timer
ReadFails(e) ==
    /\ cs' = FALSE
    /\ read_result' = <<"Err", e>>
    /\ last_error' = e
    /\ errs' = Append(errs, e)
    /\ sleeps' = sleeps + 1
    /\ dpc' = "retry_wait"

\* (mutant of WaitLow1) a missing response is reported as InvalidResponse
WaitLow1WrongError ==
    /\ dpc = "wait_low1"
    /\ \E t \in LevelTimes(50) :
          /\ waited' = t
          /\ IF WaitForLevel(t, 50)
             THEN /\ dpc' = "wait_high"
                  /\ UNCHANGED <<cs, read_result, last_error, errs, sleeps>>
             ELSE ReadFails("InvalidResponse")
    /\ UNCHANGED <<buffer, byte, bit, retry_count, attempt, ret, frame, other, high_time, reads>>
    /\ UNCHANGED offDht

\* dht11.rs 45-47: wait_for_level(Low, 50), else NoResponse
WaitLow1 ==
    /\ dpc = "wait_low1"
    /\ \E t \in LevelTimes(50) :
          /\ waited' = t
          /\ IF WaitForLevel(t, 50)
             THEN /\ dpc' = "wait_high"
                  /\ UNCHANGED <<cs, read_result, last_error, errs, sleeps>>
             ELSE ReadFails("NoResponse")
    /\ UNCHANGED <<buffer, byte, bit, retry_count, attempt, ret, frame, other, high_time, reads>>
    /\ UNCHANGED offDht

\* dht11.rs 49-51: wait_for_level(High, 100), else InvalidResponse
WaitHigh ==
    /\ dpc = "wait_high"
    /\ \E t \in LevelTimes(100) :
          /\ waited' = t
          /\ IF WaitForLevel(t, 100)
             THEN /\ dpc' = "wait_low2"
                  /\ UNCHANGED <<cs, read_result, last_error, errs, sleeps>>
             ELSE ReadFails("InvalidResponse")
    /\ UNCHANGED <<buffer, byte, bit, retry_count, attempt, ret, frame, other, high_time, reads>>
    /\ UNCHANGED offDht

\* dht11.rs 53-59: wait_for_level(Low, 100), else InvalidResponse; the two loops
\* start at byte 0, bit 7 and the sensor starts to transmit the frame f
WaitLow2(f) ==
    /\ dpc = "wait_low2"
    /\ \E t \in LevelTimes(100) :
          /\ waited' = t
          /\ IF WaitForLevel(t, 100)
             THEN /\ dpc' = "data"
                  /\ byte' = 0
                  /\ bit' = 7
                  /\ frame' = f
                  /\ UNCHANGED <<cs, read_result, last_error, errs, sleeps>>
             ELSE /\ ReadFails("InvalidResponse")
                  /\ UNCHANGED <<byte, bit, frame>>
    /\ UNCHANGED <<buffer, retry_count, attempt, ret, other, high_time, reads>>
    /\ UNCHANGED offDht

\* dht11.rs 57-71: one data bit: wait_for_level(High, 60), else InvalidResponse;
\* then the high pulse is measured and the bit is set when it is longer than
\* 40 us; bits go from 7 down to 0, bytes from 0 up to 4
DataBit ==
    /\ dpc = "data"
    /\ \E t \in LevelTimes(60) :
          /\ waited' = t
          /\ IF WaitForLevel(t, 60)
             THEN /\ \E d \in PulseOf(BitOf(frame[byte + 1], bit)) :
                        /\ high_time' = MeasureHighPulse(d, 100)
                        /\ buffer' = IF DecodesAsOne(MeasureHighPulse(d, 100))
                                     THEN [buffer EXCEPT ![byte + 1] = SetBit(@, bit)]
                                     ELSE buffer
                  /\ IF bit > 0
                     THEN /\ bit' = bit - 1
                          /\ UNCHANGED <<byte, dpc>>
                     ELSE IF byte + 1 < DHT_BUFFER_SIZE
                     THEN /\ byte' = byte + 1
                          /\ bit' = 7
                          /\ UNCHANGED dpc
                     ELSE /\ dpc' = "tail"
                          /\ UNCHANGED <<byte, bit>>
                  /\ UNCHANGED <<cs, read_result, last_error, errs, sleeps>>
             ELSE /\ ReadFails("InvalidResponse")
                  /\ UNCHANGED <<buffer, byte, bit, high_time>>
    /\ UNCHANGED <<retry_count, attempt, ret, frame, other, reads>>
    /\ UNCHANGED offDht

\* (mutant of FrameEnd) read_with_retry goes on to its wait after a successful read
FrameEndNoReturn ==
    /\ dpc = "tail"
    /\ IF buffer[5] # Sum4(buffer) % 256
       THEN /\ ReadFails("ChecksumMismatch")
            /\ UNCHANGED ret
       ELSE /\ cs' = FALSE
            /\ read_result' = <<"Ok", buffer[3], buffer[1]>>
            /\ ret' = <<"Ok", buffer[3], buffer[1]>>
            /\ sleeps' = sleeps + 1
            /\ dpc' = "retry_wait"
            /\ UNCHANGED <<last_error, errs>>
    /\ UNCHANGED <<buffer, byte, bit, retry_count, attempt, frame, other, waited,
                   high_time, reads>>
    /\ UNCHANGED offDht

\* dht11.rs 73-88, 95-101: the 50 us delay, the end of the critical section and the
\* checksum test.  buffer[0] + buffer[1] + buffer[2] + buffer[3] is a u8 sum with
\* the plain + operator: when it exceeds 255 it wraps in a build without overflow
\* checks and panics in a build with them (trap tells which build runs).  A
\* mismatch returns ChecksumMismatch to read_with_retry, a match returns
\* Ok((buffer[2], buffer[0])), which read_with_retry returns at once
FrameEnd ==
    /\ dpc = "tail"
    /\ \E trap \in BOOLEAN :
          IF trap /\ Sum4(buffer) > 255
          THEN /\ cs' = FALSE
               /\ read_result' = <<"panic">>
               /\ dpc' = "panicked"
               /\ UNCHANGED <<ret, last_error, errs, sleeps>>
          ELSE IF buffer[5] # Sum4(buffer) % 256
          THEN /\ ReadFails("ChecksumMismatch")
               /\ UNCHANGED ret
          ELSE /\ cs' = FALSE
               /\ read_result' = <<"Ok", buffer[3], buffer[1]>>
               /\ ret' = <<"Ok", buffer[3], buffer[1]>>
               /\ dpc' = "idle"
               /\ UNCHANGED <<last_error, errs, sleeps>>
    /\ UNCHANGED <<buffer, byte, bit, retry_count, attempt, frame, other, waited,
                   high_time, reads>>
    /\ UNCHANGED offDht

\* dht11.rs 94, 101-105: the 100 ms timer fires; the loop enters the next read()
\* or, after retry_count reads, ends and last_error is returned
RetryWait ==
    /\ dpc = "retry_wait"
    /\ attempt' = attempt + 1
    /\ IF attempt + 1 < retry_count
       THEN /\ BeginRead(reads)
            /\ UNCHANGED ret
       ELSE /\ ret' = <<"Err", last_error>>
            /\ dpc' = "idle"
            /\ UNCHANGED <<buffer, byte, bit, read_result, frame, waited, high_time, reads>>
    /\ UNCHANGED <<cs, retry_count, last_error, other, sleeps, errs>>
    /\ UNCHANGED offDht

\* another task of the executor, or an interrupt handler, runs: possible whenever
\* the critical section is not held (dht11.rs 41)
OtherRuns ==
    /\ ~cs
    /\ other' = ~other
    /\ UNCHANGED <<dpc, buffer, byte, bit, cs, read_result, retry_count, attempt,
                   last_error, ret, frame, waited, high_time, reads, sleeps, errs>>
    /\ UNCHANGED offDht

\* the decoder with a sensor that transmits the frames fs, called with a
\* retry_count of at most maxn
NextDhtOf(fs, maxn) ==
    \/ \E n \in 1..maxn : DhtCall(n)
    \/ Release
    \/ WaitLow1
    \/ WaitHigh
    \/ \E f \in fs : WaitLow2(f)
    \/ DataBit
    \/ FrameEnd
    \/ RetryWait
    \/ OtherRuns

\* single reads of every frame of Frames
SpecDht == Init /\ [][NextDhtOf(Frames, 1)]_dhtVars

\* read_with_retry with up to MaxRetry reads
SpecRetry == Init /\ [][NextDhtOf(RetryFrames, MaxRetry)]_dhtVars

\* single reads on a line that may stay at one level: after the handshake the
\* line is high whenever it is looked at, for as long as the sensor takes for a
\* 1 or for good (the 1000 of PulseOf), or it stays low (the 1000 of LevelTimes)
StuckFrames == {<<255, 255, 255, 255, 255>>}
SpecStuck == Init /\ [][NextDhtOf(StuckFrames, 1)]_dhtVars

----------------------------------------------------------------------------
\* The debounced input sources (main.rs 68-146): four button tasks, motion_task
\* and contact_task, the two mailboxes they send to, and the orchestrator as far
\* as it receives from the mailboxes and flips the enable flags.

IsSensor(s) == s \in SensorMessage

\* the mailbox a source sends to and its capacity
QueueOf(s, bq, sq) == IF IsSensor(s) THEN sq ELSE bq
CapOf(s) == IF IsSensor(s) THEN SENSOR_CAP ELSE BUTTON_CAP

\* main.rs 78-80 / 107-114: the top of a source's loop, up to its next await.  A
\* button task waits for a falling edge.  A sensor task starts the 1 s timer when
\* its flag en is off; otherwise wait_for_high returns at once when the line lvl
\* is already high and the 20 ms timer is started
LoopTop(s, en, lvl) ==
    IF ~IsSensor(s) THEN "wait"
    ELSE IF ~en THEN "poll"
    ELSE IF lvl THEN "debounce"
    ELSE "wait"

\* main.rs 85-86 / 118-121: the await that follows a completed send: a button task
\* is back at the top of its loop, a sensor task sleeps for its read delay
AfterSend(s) == IF IsSensor(s) THEN "rearm" ELSE "wait"

\* main.rs 110 / 121: the whole seconds a sensor task sleeps for when it arrives
\* at await p, d being the read delay it loads
TimerOf(p, d) == IF p = "rearm" THEN d ELSE IF p = "poll" THEN POLL_SECS ELSE 0

\* main.rs 110, 118-121: the task of source s arrives at await p; acc tells that
\* its event was accepted by the mailbox on the way.  A sensor task starts the
\* timer of p; after an accepted alert that is the read delay loaded now
Arm(s, p, acc) ==
    /\ timer' = IF IsSensor(s) THEN [timer EXCEPT ![s] = TimerOf(p, read_delay[s])]
                ELSE timer
    /\ armed' = IF IsSensor(s) /\ acc THEN [armed EXCEPT ![s] = read_delay[s]]
                ELSE armed
    /\ since' = IF IsSensor(s) /\ acc THEN [since EXCEPT ![s] = 0] ELSE since

\* the line of source s changes level.  main.rs 80-82 / 114-115: a task waiting
\* for its line is woken by the change to the active level and starts the 20 ms
\* timer
PinChange(s) ==
    /\ toggles < MaxToggles
    /\ toggles' = toggles + 1
    /\ pin' = [pin EXCEPT ![s] = ~pin[s]]
    /\ IF spc[s] = "wait" /\ ~pin[s]
       THEN /\ spc' = [spc EXCEPT ![s] = "debounce"]
            /\ bounced' = [bounced EXCEPT ![s] = FALSE]
       ELSE /\ spc' = spc
            /\ bounced' = [bounced EXCEPT ![s] = @ \/ (spc[s] = "debounce" /\ pin[s])]
    /\ UNCHANGED <<enabled, buttonq, sensorq, read_delay, timer, armed, since>>
    /\ UNCHANGED offSrc

\* (mutant of Confirmed) an event offered to a full mailbox replaces the oldest
ConfirmedOverwrite(s, lvl, q) ==
    IF ~lvl THEN q
    ELSE IF Len(q) < CapOf(s) THEN Append(q, s)
    ELSE Append(Tail(q), s)

\* what the expiry of the 20 ms timer does to the mailbox q of source s, whose
\* line is at lvl: the event is appended when the line is active and q has room
Confirmed(s, lvl, q) == IF lvl /\ Len(q) < CapOf(s) THEN Append(q, s) ELSE q

\* main.rs 82-85 / 115-121: the 20 ms timer fires and the line is sampled once.
\* Inactive: continue.  Active: sender.send(..).await, which completes at once
\* when the mailbox has room and suspends the task when it is full
DebounceDone(s) ==
    /\ spc[s] = "debounce"
    /\ LET room == Len(QueueOf(s, buttonq, sensorq)) < CapOf(s)
           p == IF ~pin[s] THEN LoopTop(s, IsSensor(s) /\ enabled[s], pin[s])
                ELSE IF room THEN AfterSend(s)
                ELSE "send"
       IN  /\ spc' = [spc EXCEPT ![s] = p]
           /\ bounced' = [bounced EXCEPT ![s] =
                             IF ~pin[s] /\ p = "debounce" THEN FALSE ELSE @]
           /\ Arm(s, p, pin[s] /\ room)
    /\ IF IsSensor(s)
       THEN /\ sensorq' = Confirmed(s, pin[s], sensorq)
            /\ UNCHANGED buttonq
       ELSE /\ buttonq' = Confirmed(s, pin[s], buttonq)
            /\ UNCHANGED sensorq
    /\ UNCHANGED <<pin, enabled, read_delay, toggles>>
    /\ UNCHANGED offSrc

\* (mutant of SourceSend) the suspended sender is not woken when a slot frees
SourceSendNoWake(s) ==
    /\ spc[s] = "send"
    /\ Len(QueueOf(s, buttonq, sensorq)) < CapOf(s)
    /\ UNCHANGED srcVars
    /\ UNCHANGED offSrc

\* main.rs 85 / 118-121: a send suspended on the full mailbox completes
SourceSend(s) ==
    /\ spc[s] = "send"
    /\ Len(QueueOf(s, buttonq, sensorq)) < CapOf(s)
    /\ spc' = [spc EXCEPT ![s] = AfterSend(s)]
    /\ Arm(s, AfterSend(s), TRUE)
    /\ IF IsSensor(s)
       THEN /\ sensorq' = Append(sensorq, s)
            /\ UNCHANGED buttonq
       ELSE /\ buttonq' = Append(buttonq, s)
            /\ UNCHANGED sensorq
    /\ UNCHANGED <<pin, enabled, read_delay, bounced, toggles>>
    /\ UNCHANGED offSrc

\* main.rs 109-112 and 121 with the timer expired at once, whatever it was set to
SensorTimerNoSleep(s) ==
    /\ IsSensor(s)
    /\ spc[s] \in {"poll", "rearm"}
    /\ LET p == LoopTop(s, enabled[s], pin[s])
       IN  /\ spc' = [spc EXCEPT ![s] = p]
           /\ bounced' = [bounced EXCEPT ![s] = IF p = "debounce" THEN FALSE ELSE @]
           /\ Arm(s, p, FALSE)
    /\ UNCHANGED <<pin, enabled, buttonq, sensorq, read_delay, toggles>>
    /\ UNCHANGED offSrc

\* main.rs 109-112 and 121: the 1 s timer of a disabled sensor, or the read-delay
\* timer after an alert, has run out and the loop starts over
SensorTimer(s) ==
    /\ IsSensor(s)
    /\ spc[s] \in {"poll", "rearm"}
    /\ timer[s] = 0
    /\ LET p == LoopTop(s, enabled[s], pin[s])
       IN  /\ spc' = [spc EXCEPT ![s] = p]
           /\ bounced' = [bounced EXCEPT ![s] = IF p = "debounce" THEN FALSE ELSE @]
           /\ Arm(s, p, FALSE)
    /\ UNCHANGED <<pin, enabled, buttonq, sensorq, read_delay, toggles>>
    /\ UNCHANGED offSrc

\* one second passes: every running Timer::after_secs (main.rs 110, 121) has one
\* second less to go
Second ==
    /\ timer' = [s \in SensorMessage |-> IF timer[s] > 0 THEN timer[s] - 1 ELSE 0]
    /\ since' = [s \in SensorMessage |->
                    IF since[s] < armed[s] THEN since[s] + 1 ELSE since[s]]
    /\ UNCHANGED <<spc, pin, enabled, buttonq, sensorq, read_delay, bounced, toggles,
                   armed>>
    /\ UNCHANGED offSrc

\* ui.rs 627-628: toggle_selected with Contact or Motion selected
ToggleSensor(s) ==
    /\ IsSensor(s)
    /\ enabled' = [enabled EXCEPT ![s] = ~enabled[s]]
    /\ UNCHANGED <<spc, pin, buttonq, sensorq, read_delay, timer, bounced, toggles,
                   armed, since>>
    /\ UNCHANGED offSrc

\* ui.rs 747-751: the value increase_delay leaves in a delay that holds d
IncreasedDelay(d) == IF d < GENERIC_MAX_READ_DELAY THEN d + 1 ELSE d

\* (mutant of DecreasedDelay) the test of ui.rs 738 lets the minimum through
DecreasedDelayInclusive(d) == IF d >= GENERIC_MIN_READ_DELAY THEN d - 1 ELSE d

\* ui.rs 737-741: the value decrease_delay leaves in a delay that holds d
DecreasedDelay(d) == IF d > GENERIC_MIN_READ_DELAY THEN d - 1 ELSE d

\* ui.rs 735-755: increase_delay (up) or decrease_delay with Contact or Motion
\* selected; both do nothing while the selected sensor is disabled
ChangeDelay(s, up) ==
    /\ IsSensor(s)
    /\ enabled[s]
    /\ up => read_delay[s] < MaxDelay
    /\ read_delay' = [read_delay EXCEPT ![s] =
                         IF up THEN IncreasedDelay(@) ELSE DecreasedDelay(@)]
    /\ UNCHANGED <<spc, pin, enabled, buttonq, sensorq, timer, bounced, toggles,
                   armed, since>>
    /\ UNCHANGED offSrc

\* main.rs 409-410, 417: the orchestrator receives a button event
ReceiveButton ==
    /\ buttonq # <<>>
    /\ buttonq' = Tail(buttonq)
    /\ UNCHANGED <<spc, pin, enabled, sensorq, read_delay, timer, bounced, toggles,
                   armed, since>>
    /\ UNCHANGED offSrc

\* main.rs 409, 411: the orchestrator receives a sensor alert
ReceiveSensor ==
    /\ sensorq # <<>>
    /\ sensorq' = Tail(sensorq)
    /\ UNCHANGED <<spc, pin, enabled, buttonq, read_delay, timer, bounced, toggles,
                   armed, since>>
    /\ UNCHANGED offSrc

NextSrc ==
    \/ \E s \in Sources : PinChange(s)
    \/ \E s \in Sources : DebounceDone(s)
    \/ \E s \in Sources : SourceSend(s)
    \/ \E s \in SensorMessage : SensorTimer(s)
    \/ Second
    \/ \E s \in SensorMessage : ToggleSensor(s)
    \/ ReceiveButton
    \/ ReceiveSensor

SpecSrc == Init /\ [][NextSrc]_srcVars

\* Runs in which the user also changes the read delays.  The lines that move are
\* those of one button (the four button tasks are instances of one macro,
\* main.rs 71-93) and of the two sensors
RearmSources == {"A"} \cup SensorMessage

NextRearm ==
    \/ \E s \in RearmSources : PinChange(s)
    \/ \E s \in RearmSources : DebounceDone(s)
    \/ \E s \in RearmSources : SourceSend(s)
    \/ \E s \in SensorMessage : SensorTimer(s)
    \/ Second
    \/ \E s \in SensorMessage : ToggleSensor(s)
    \/ \E s \in SensorMessage, up \in BOOLEAN : ChangeDelay(s, up)
    \/ ReceiveButton
    \/ ReceiveSensor

SpecRearm == Init /\ [][NextRearm]_srcVars

\* The two sensors alone, both enabled, with an orchestrator that keeps
\* receiving alerts (it is in Displaying state and comes back to its select).
\* A sender suspended on SENSOR_CHANNEL is woken when a slot frees and is polled
\* by the executor; the other sensor task, once its alert is accepted, sleeps
\* for its read delay of at least GENERIC_MIN_READ_DELAY seconds before it can
\* offer the next one (main.rs 121), so a sender that finds a free slot again
\* and again does get one.
NextTurn ==
    \/ \E s \in SensorMessage : PinChange(s)
    \/ \E s \in SensorMessage : DebounceDone(s)
    \/ \E s \in SensorMessage : SourceSend(s)
    \/ \E s \in SensorMessage : SensorTimer(s)
    \/ Second
    \/ ReceiveSensor

SpecTurn ==
    /\ Init
    /\ [][NextTurn]_srcVars
    /\ WF_srcVars(ReceiveSensor)
    /\ \A s \in SensorMessage : SF_srcVars(SourceSend(s))

----------------------------------------------------------------------------
\* The configuration screens of the orchestrator (ui.rs 262-298, 606-641, 735-801)

\* ui.rs 759-763 and 766-771
UiState == {"Displaying", "SelectingDelay", "ModifyingDelay"}
DelaySelection == {"DHT", "Motion", "Contact", "MQTT"}

\* ui.rs 774-781
previous(sel) ==
    CASE sel = "DHT" -> "DHT"
      [] sel = "Motion" -> "DHT"
      [] sel = "Contact" -> "Motion"
      [] sel = "MQTT" -> "Contact"

\* ui.rs 783-790
next(sel) ==
    CASE sel = "DHT" -> "Motion"
      [] sel = "Motion" -> "Contact"
      [] sel = "Contact" -> "MQTT"
      [] sel = "MQTT" -> "MQTT"

\* the sensor whose flag and read delay the selection sel stands for
SensorOf(sel) == IF sel = "Motion" THEN "MotionSensor" ELSE "ContactSensor"

\* SharedConfig: the enable flags and the intervals
flagVars == <<dht_enabled, enabled, MQTT_ENABLED>>
delayVars == <<dht_delay, read_delay>>
cfgVars == <<ui_state, selection, ui_panic, flagVars, delayVars>>

\* ui.rs 634-641
is_selection_enabled(sel) ==
    CASE sel = "DHT" -> dht_enabled
      [] sel = "MQTT" -> MQTT_ENABLED
      [] OTHER -> enabled[SensorOf(sel)]

\* ui.rs 606-613: the delay selected by sel when the DHT delay is dd and the
\* read delays of the sensors are rd (MQTT has none: the code panics)
DelayOf(sel, dd, rd) == IF sel = "DHT" THEN dd ELSE rd[SensorOf(sel)]
get_selected_delay(sel) == DelayOf(sel, dht_delay, read_delay)

\* ui.rs 611 / 620: the panic of get_selected_delay / store_selected_delay called
\* with the selection sel, "" when they return
ReadPanic(sel) ==
    IF sel = "MQTT" THEN "UI: Tried to read non-existing MQTT delay" ELSE ""
StorePanic(sel) ==
    IF sel = "MQTT" THEN "UI: Tried to set non-existing MQTT delay" ELSE ""

\* ui.rs 615-622: val is a u8 and is stored as it is
store_selected_delay(sel, val) ==
    /\ dht_delay' = IF sel = "DHT" THEN val % 256 ELSE dht_delay
    /\ read_delay' = IF sel \in {"Motion", "Contact"}
                     THEN [read_delay EXCEPT ![SensorOf(sel)] = val % 256]
                     ELSE read_delay

\* (mutant of toggle_selected) every flag is toggled, whatever is selected
toggle_selectedAll(sel) ==
    /\ dht_enabled' = ~dht_enabled
    /\ enabled' = [s \in SensorMessage |-> ~enabled[s]]
    /\ MQTT_ENABLED' = ~MQTT_ENABLED

\* ui.rs 624-632
toggle_selected(sel) ==
    /\ dht_enabled' = IF sel = "DHT" THEN ~dht_enabled ELSE dht_enabled
    /\ enabled' = IF sel \in {"Motion", "Contact"}
                  THEN [enabled EXCEPT ![SensorOf(sel)] = ~@]
                  ELSE enabled
    /\ MQTT_ENABLED' = IF sel = "MQTT" THEN ~MQTT_ENABLED ELSE MQTT_ENABLED

\* (mutant of MayChange) the test without its first half
MayChangeWhileDisabled(sel) == sel # "MQTT"

\* (mutant of MayChange) the test without its second half
MayChangeAnySelection(sel) == is_selection_enabled(sel)

\* ui.rs 736 / 747: the test at the top of decrease_delay and increase_delay
MayChange(sel) == is_selection_enabled(sel) /\ sel # "MQTT"

\* ui.rs 735-755: decrease_delay (up = FALSE) and increase_delay (up = TRUE), up
\* to their call of update
change_delay(sel, up) ==
    IF MayChange(sel) /\ ReadPanic(sel) = ""
    THEN LET delay == get_selected_delay(sel)
             new == IF up THEN IncreasedDelay(delay) ELSE DecreasedDelay(delay)
         IN  IF new # delay /\ StorePanic(sel) = ""
             THEN store_selected_delay(sel, new)
             ELSE UNCHANGED delayVars
    ELSE UNCHANGED delayVars

\* the panic decrease_delay and increase_delay run into before their call of
\* update, "" when they reach it
ChangePanic(sel, up) ==
    IF ~MayChange(sel) THEN ""
    ELSE IF ReadPanic(sel) # "" THEN ReadPanic(sel)
    ELSE LET delay == get_selected_delay(sel)
             new == IF up THEN IncreasedDelay(delay) ELSE DecreasedDelay(delay)
         IN  IF new # delay THEN StorePanic(sel) ELSE ""

\* (mutant of DrawReads) the ModifyingDelay arm without its test for MQTT
DrawReadsAnySelection(st, sel, en) == st = "ModifyingDelay" /\ en

\* ui.rs 592-603: draw_content calls get_selected_delay: in ModifyingDelay state,
\* when the selection sel is not MQTT and is enabled (en)
DrawReads(st, sel, en) == st = "ModifyingDelay" /\ sel # "MQTT" /\ en

\* ui.rs 247-257, 484-488: the panic of the draw_content that ends every button
\* handler (through set_state and redraw, or through update)
DrawPanic(st, sel, en) == IF DrawReads(st, sel, en) THEN ReadPanic(sel) ELSE ""

\* ui.rs 262-298: the panic handle_button_press(b) runs into before it draws
PressPanic(b) ==
    IF ui_state = "ModifyingDelay" /\ b \in {"B", "C"}
    THEN ChangePanic(selection, b = "B")
    ELSE ""

\* ui.rs 262-298: what handle_button_press(b) does to the Ui and to SharedConfig;
\* every arm ends with a draw_content of the state it leaves
ButtonPressEffect(b) ==
    /\ CASE ui_state = "Displaying" ->
              /\ ui_state' = "SelectingDelay"
              /\ UNCHANGED <<selection, flagVars, delayVars>>
        [] ui_state = "SelectingDelay" ->
              /\ ui_state' = CASE b = "A" -> "Displaying"
                               [] b = "D" -> "ModifyingDelay"
                               [] OTHER -> "SelectingDelay"
              /\ selection' = CASE b = "A" -> "DHT"
                                [] b = "B" -> previous(selection)
                                [] b = "C" -> next(selection)
                                [] OTHER -> selection
              /\ UNCHANGED <<flagVars, delayVars>>
        [] ui_state = "ModifyingDelay" ->
              /\ ui_state' = IF b = "D" THEN "SelectingDelay" ELSE "ModifyingDelay"
              /\ selection' = selection
              /\ CASE b = "A" -> /\ toggle_selected(selection)
                                 /\ UNCHANGED delayVars
                   [] b = "B" -> /\ change_delay(selection, TRUE)
                                 /\ UNCHANGED flagVars
                   [] b = "C" -> /\ change_delay(selection, FALSE)
                                 /\ UNCHANGED flagVars
                   [] b = "D" -> UNCHANGED <<flagVars, delayVars>>
    /\ ui_panic' = IF PressPanic(b) # "" THEN PressPanic(b)
                   ELSE DrawPanic(ui_state', selection', is_selection_enabled(selection)')

\* what handle_button_press leaves alone
ButtonPressFrame ==
    /\ UNCHANGED <<mqttVars, connVars, cmdq, respq, ui_todo, netUp, histVars>>
    /\ UNCHANGED <<spc, pin, sensorq, timer, bounced, toggles, armed, since>>
    /\ UNCHANGED offUi

\* ui.rs 262-298: handle_button_press(b), called with the orchestrator in no
\* other handler
HandleButtonPress(b) ==
    /\ UiIdle
    /\ ui_panic = ""
    /\ ButtonPressEffect(b)
    /\ ButtonPressFrame
    /\ UNCHANGED <<buttonq, handling, presses>>

\* every sequence of button presses, handled one after the other; the transport
\* plays no part in the configuration screens and is up in these runs
NextUi == \E b \in ButtonType : HandleButtonPress(b)

InitUi == Init /\ netUp

SpecUi == InitUi /\ [][NextUi]_cfgVars

----------------------------------------------------------------------------
\* The UI loop (main.rs 401-421).  The source tasks are present by what they do
\* to the two mailboxes: a send that completes.

\* main.rs 85: sender.send($btype).await of a button task completes
ButtonEvent(b) ==
    /\ presses < MaxPresses
    /\ Len(buttonq) < BUTTON_CAP
    /\ buttonq' = Append(buttonq, b)
    /\ presses' = presses + 1
    /\ UNCHANGED <<ui_state, selection, dht_delay, dht_enabled, ui_panic, handling>>
    /\ UNCHANGED <<spc, pin, enabled, sensorq, read_delay, timer, bounced, toggles,
                   armed, since>>
    /\ UNCHANGED <<vars, offUi>>

\* main.rs 118 / 141: sender.send(..).await of a sensor task completes
SensorEvent(s) ==
    /\ Len(sensorq) < SENSOR_CAP
    /\ sensorq' = Append(sensorq, s)
    /\ UNCHANGED <<spc, pin, enabled, buttonq, read_delay, timer, bounced, toggles,
                   armed, since>>
    /\ UNCHANGED <<vars, offUi, uiVars>>

\* the orchestrator is at the top of the UI loop (main.rs 406-407)
AtSelect == UiIdle /\ ui_panic = ""

\* main.rs 409-410 and 416-418: the button branch of select4 is polled first and
\* is the only receive in the setup states
LoopButton ==
    /\ AtSelect
    /\ buttonq # <<>>
    /\ buttonq' = Tail(buttonq)
    /\ handling' = <<"Button", Head(buttonq)>>
    /\ ButtonPressEffect(Head(buttonq))
    /\ ButtonPressFrame
    /\ UNCHANGED presses

\* ui.rs 301-303, 334 / 339-341, 365: the match on self.state at the top of
\* handle_mqtt_response and handle_sensor_message: the panic message, "" in
\* Displaying state
OutsideDisplaying(st, text) == IF st = "Displaying" THEN "" ELSE text

\* (mutant of LoopSensor) the sensor branch wins over a pending button event
LoopSensorFirst ==
    /\ AtSelect
    /\ ui_state = "Displaying"
    /\ sensorq # <<>>
    /\ sensorq' = Tail(sensorq)
    /\ handling' = <<"Sensor", Head(sensorq)>>
    /\ ui_todo' = IF ui_state = "Displaying" THEN SensorRequest(Head(sensorq)) ELSE <<>>
    /\ ui_panic' = OutsideDisplaying(ui_state, "UI: Sensor message received outside of displaying state")
    /\ UNCHANGED <<ui_state, selection, dht_delay, dht_enabled, presses>>
    /\ UNCHANGED <<spc, pin, enabled, buttonq, read_delay, timer, bounced, toggles,
                   armed, since>>
    /\ UNCHANGED <<mqttVars, connVars, fabricVars, netUp, histVars>>
    /\ UNCHANGED offUi

\* (mutant of LoopSensor) the sensor branch is also polled in the setup states
LoopSensorAnyState ==
    /\ AtSelect
    /\ buttonq = <<>>
    /\ sensorq # <<>>
    /\ sensorq' = Tail(sensorq)
    /\ handling' = <<"Sensor", Head(sensorq)>>
    /\ ui_todo' = IF ui_state = "Displaying" THEN SensorRequest(Head(sensorq)) ELSE <<>>
    /\ ui_panic' = OutsideDisplaying(ui_state, "UI: Sensor message received outside of displaying state")
    /\ UNCHANGED <<ui_state, selection, dht_delay, dht_enabled, presses>>
    /\ UNCHANGED <<spc, pin, enabled, buttonq, read_delay, timer, bounced, toggles,
                   armed, since>>
    /\ UNCHANGED <<mqttVars, connVars, fabricVars, netUp, histVars>>
    /\ UNCHANGED offUi

\* main.rs 409, 411, ui.rs 339-367: in Displaying state the sensor branch is
\* polled second; handle_sensor_message passes one request to Ui::send and
\* panics outside Displaying state
LoopSensor ==
    /\ AtSelect
    /\ ui_state = "Displaying"
    /\ buttonq = <<>>
    /\ sensorq # <<>>
    /\ sensorq' = Tail(sensorq)
    /\ handling' = <<"Sensor", Head(sensorq)>>
    /\ ui_todo' = IF ui_state = "Displaying" THEN SensorRequest(Head(sensorq)) ELSE <<>>
    /\ ui_panic' = OutsideDisplaying(ui_state, "UI: Sensor message received outside of displaying state")
    /\ UNCHANGED <<ui_state, selection, dht_delay, dht_enabled, presses>>
    /\ UNCHANGED <<spc, pin, enabled, buttonq, read_delay, timer, bounced, toggles,
                   armed, since>>
    /\ UNCHANGED <<mqttVars, connVars, fabricVars, netUp, histVars>>
    /\ UNCHANGED offUi

\* (mutant of LoopOutcome) the outcome branch is also polled in the setup states
LoopOutcomeAnyState ==
    /\ AtSelect
    /\ buttonq = <<>>
    /\ sensorq = <<>>
    /\ respq # <<>>
    /\ respq' = Tail(respq)
    /\ handling' = <<"Outcome", Head(respq)>>
    /\ ui_panic' = OutsideDisplaying(ui_state, "UI: MQTT response received outside of displaying state")
    /\ UNCHANGED <<ui_state, selection, dht_delay, dht_enabled, presses>>
    /\ UNCHANGED <<mqttVars, connVars, cmdq, MQTT_ENABLED, ui_todo, netUp, histVars>>
    /\ UNCHANGED <<offUi, srcVars>>

\* main.rs 409, 412, ui.rs 301-336: the outcome branch is polled third; the
\* handler panics outside Displaying state
LoopOutcome ==
    /\ AtSelect
    /\ ui_state = "Displaying"
    /\ buttonq = <<>>
    /\ sensorq = <<>>
    /\ respq # <<>>
    /\ respq' = Tail(respq)
    /\ handling' = <<"Outcome", Head(respq)>>
    /\ ui_panic' = OutsideDisplaying(ui_state, "UI: MQTT response received outside of displaying state")
    /\ UNCHANGED <<ui_state, selection, dht_delay, dht_enabled, presses>>
    /\ UNCHANGED <<mqttVars, connVars, cmdq, MQTT_ENABLED, ui_todo, netUp, histVars>>
    /\ UNCHANGED <<offUi, srcVars>>

\* main.rs 409, 413, ui.rs 370-456: the 100 ms timer is polled last.  The tick
\* looks at the DHT only while dht_enabled and at a sensor's silence only while
\* its flag is on; r, motionDue and contactDue are what the clock and the DHT
\* give it
LoopTick(r, motionDue, contactDue) ==
    /\ AtSelect
    /\ ui_state = "Displaying"
    /\ buttonq = <<>>
    /\ sensorq = <<>>
    /\ respq = <<>>
    /\ handling' = <<"Tick">>
    /\ ui_todo' = TickRequests(IF dht_enabled THEN r ELSE <<>>,
                               motionDue /\ enabled["MotionSensor"],
                               contactDue /\ enabled["ContactSensor"])
    /\ \E blinkOver \in BOOLEAN :
          /\ blinkOver => (dht_enabled /\ ~dht_tracker.handled)
          /\ TickDhtEffect(IF dht_enabled THEN r ELSE <<>>, blinkOver)
    /\ UNCHANGED <<tick_pc, ui_now>>
    /\ UNCHANGED <<ui_state, selection, dht_delay, dht_enabled, ui_panic, presses>>
    /\ UNCHANGED <<mqttVars, connVars, fabricVars, netUp, histVars>>
    /\ UNCHANGED <<offTick, srcVars>>

\* the requests the handler that would run next passes to Ui::send fit the budget
\* of the run (MaxReq)
InBudget(n) == nextId + n <= MaxReq + 1

\* ---- Ui::tick with its DHT read followed through the decoder

\* ui.rs 374-375: a DHT read is due
DhtDue == ui_now - dht_tracker.time >= dht_delay
\* ui.rs 397: the blink of the last reading has lasted a second
BlinkOver == ~dht_tracker.handled /\ ui_now - dht_tracker.time >= 1

TickFrame ==
    /\ UNCHANGED ui_now
    /\ UNCHANGED <<ui_state, selection, dht_delay, dht_enabled, ui_panic, presses>>
    /\ UNCHANGED <<mqttVars, connVars, fabricVars, netUp, histVars>>
    /\ UNCHANGED <<srvVars, srcVars>>

\* ui.rs 405-456: the rest of the tick after its DHT part, which gave the
\* reading r or none: the silences that are due
TickRest(r, motionDue, contactDue) ==
    ui_todo' = TickRequests(r, motionDue /\ enabled["MotionSensor"],
                            contactDue /\ enabled["ContactSensor"])

\* main.rs 413, ui.rs 370-378: the 100 ms timer wins the select.  With the DHT
\* enabled and a read due the tick enters read_with_retry(3) and awaits it;
\* otherwise the DHT part ends at once and the tick goes on with the silences
TickStart(motionDue, contactDue) ==
    /\ AtSelect
    /\ ui_state = "Displaying"
    /\ buttonq = <<>>
    /\ sensorq = <<>>
    /\ respq = <<>>
    /\ handling' = <<"Tick">>
    /\ IF dht_enabled /\ DhtDue
       THEN /\ EnterRetry(TICK_RETRIES)
            /\ tick_pc' = "dht"
            /\ UNCHANGED <<current_values, dht_tracker, ui_todo>>
       ELSE /\ TickDhtEffect(<<>>, dht_enabled /\ BlinkOver)
            /\ TickRest(<<>>, motionDue, contactDue)
            /\ UNCHANGED <<tick_pc, dhtVars>>
    /\ TickFrame

\* what read_with_retry returned, as the reading the tick uses
ReadingOf(rt) == IF rt[1] = "Ok" THEN <<(<<rt[2], rt[3]>>)>> ELSE <<>>

\* (mutant of TickDhtDone) a failed read is treated as a reading of the current
\* values
TickDhtDoneResend(motionDue, contactDue) ==
    /\ tick_pc = "dht"
    /\ dpc = "idle"
    /\ ret # <<>>
    /\ tick_pc' = "none"
    /\ LET r == IF ret[1] = "Ok" THEN ReadingOf(ret)
                ELSE <<(<<current_values.temperature, current_values.humidity>>)>>
       IN  /\ TickDhtEffect(r, FALSE)
           /\ TickRest(r, motionDue, contactDue)
    /\ UNCHANGED handling
    /\ UNCHANGED dhtVars
    /\ TickFrame

\* ui.rs 378-456: read_with_retry(3) has returned.  Ok((temperature, humidity)):
\* both are passed to Ui::send, the tracker is reset, the current values are
\* updated; Err: logged only.  The tick then goes on with the silences
TickDhtDone(motionDue, contactDue) ==
    /\ tick_pc = "dht"
    /\ dpc = "idle"
    /\ ret # <<>>
    /\ tick_pc' = "none"
    /\ TickDhtEffect(ReadingOf(ret), FALSE)
    /\ TickRest(ReadingOf(ret), motionDue, contactDue)
    /\ UNCHANGED handling
    /\ UNCHANGED dhtVars
    /\ TickFrame

\* a second passes while the orchestrator is at its select
TickSecond ==
    /\ AtSelect
    /\ ui_now < MaxNow
    /\ ui_now' = ui_now + 1
    /\ UNCHANGED <<current_values, dht_tracker, tick_pc>>
    /\ UNCHANGED <<vars, dhtVars, srcVars, uiVars, srvVars>>

\* The ticks of the orchestrator with the decoder: the sensor transmits the
\* frames of RetryFrames, the line fails at any wait, the silences are due or
\* not; nothing consumes the publish requests
NextTick ==
    \/ \E m \in BOOLEAN, c \in BOOLEAN :
          /\ nextId + 4 <= MaxTickReq + 1
          /\ TickStart(m, c)
    \/ \E m \in BOOLEAN, c \in BOOLEAN : TickDhtDone(m, c)
    \/ TickSecond
    \/ UiSend
    \/ Release
    \/ WaitLow1
    \/ WaitHigh
    \/ \E f \in RetryFrames : WaitLow2(f)
    \/ DataBit
    \/ FrameEnd
    \/ RetryWait

tickSpecVars == <<vars, dhtVars, uiVars, tickVars>>

SpecTick == Init /\ [][NextTick]_tickSpecVars

\* The UI loop with its producers and with the session manager on a transport
\* that is up: no send fails, so RespondErr is never enabled and is left out
NextLoop ==
    \/ \E b \in ButtonType : ButtonEvent(b)
    \/ \E s \in SensorMessage : SensorEvent(s)
    \/ LoopButton
    \/ (InBudget(1) /\ LoopSensor)
    \/ LoopOutcome
    \/ \E r \in {<<>>} \cup {<<x>> : x \in Readings}, m \in BOOLEAN, c \in BOOLEAN :
          /\ InBudget(Len(TickRequests(r, m, c)))
          /\ LoopTick(r, m, c)
    \/ UiSend
    \/ TickReconnect
    \/ ConnectClear
    \/ ConnectTcp
    \/ ConnectHandshake
    \/ TickConnected
    \/ PingDone
    \/ Receive
    \/ ReceiveTimeout
    \/ SendDone
    \/ RespondOk
    \/ Yield
    \/ Elapse

loopVars == <<vars, srcVars, uiVars>>

SpecLoop == InitUi /\ [][NextLoop]_loopVars

\* The UI loop with the broker unreachable for the whole run: every connect of
\* the session manager fails at the TCP stage (main.rs 168-171), so it never gets
\* past the reconnect stage.  The motion sensor keeps alerting (MaxFill requests at
\* most), the user presses buttons, the ticks find nothing due.  The executor
\* polls every task that is ready and the timers expire, so neither the
\* orchestrator nor the session manager stays forever at a step it can take.
InitDown == Init /\ ~netUp

UiStep ==
    \/ LoopButton
    \/ (nextId <= MaxFill /\ LoopSensor)
    \/ LoopTick(<<>>, FALSE, FALSE)
    \/ UiSend

MqttDown ==
    \/ TickReconnect
    \/ ConnectClear
    \/ ConnectTcp
    \/ Elapse

NextStall ==
    \/ \E b \in ButtonType : ButtonEvent(b)
    \/ SensorEvent("MotionSensor")
    \/ UiStep
    \/ MqttDown

SpecStall ==
    InitDown /\ [][NextStall]_loopVars /\ WF_loopVars(UiStep) /\ WF_loopVars(MqttDown)

\* The UI loop with the motion sensor alerting and the session manager on a
\* transport that is up: the alerts are handled and passed on, the outcomes are
\* read when no alert is ready, the ticks find nothing due; the user presses
\* button A at most once, which opens the setup screens
NextCycle ==
    \/ (presses = 0 /\ ButtonEvent("A"))
    \/ LoopButton
    \/ SensorEvent("MotionSensor")
    \/ (nextId <= MaxCycle /\ LoopSensor)
    \/ LoopOutcome
    \/ LoopTick(<<>>, FALSE, FALSE)
    \/ UiSend
    \/ TickReconnect
    \/ ConnectClear
    \/ ConnectTcp
    \/ ConnectHandshake
    \/ TickConnected
    \/ PingDone
    \/ Receive
    \/ ReceiveTimeout
    \/ SendDone
    \/ RespondOk
    \/ Yield
    \/ Elapse

SpecCycle == InitUi /\ [][NextCycle]_loopVars

----------------------------------------------------------------------------
\* The downstream service (server/src/main.rs)
\*
\* One task runs start_mqtt_subscriber; it handles one publish at a time.  A
\* handler that fails (payload that is no integer, failed insert) makes
\* start_mqtt_subscriber return and main restart it (lines 77-81); the static
\* LAST_SENT_TIMES lives on.

SrvTopics == {"esp32/temperature", "esp32/motion", "esp32/contact", "esp32/other"}
AlertTopics == {"esp32/motion", "esp32/contact"}
Payloads == {"0", "1", "+1", "on"}
\* seconds that pass between two steps of the service
SrvSteps == {300, 599}

\* str::parse::<i32> on the payloads above: <<n>> for Ok(n), <<>> for Err
ParseI32(p) ==
    CASE p = "0" -> <<0>>
      [] p = "1" -> <<1>>
      [] p = "+1" -> <<1>>
      [] OTHER -> <<>>

\* server main.rs 37-42: the early return of maybe_send_email
CooldownActive(topic, now) ==
    /\ topic \in DOMAIN LAST_SENT_TIMES
    /\ now - LAST_SENT_TIMES[topic] < COOLDOWN_DURATION

\* HashMap::insert
Insert(m, k, v) == [x \in DOMAIN m \cup {k} |-> IF x = k THEN v ELSE m[x]]

\* server main.rs 99-141 and 30-42: one publish is taken from the event loop and handled
\* up to the mail attempt.  dbOk: the insert succeeded.
Publish(topic, payload, dbOk) ==
    /\ srv_msg.outcome # "mailing"
    /\ LET v == ParseI32(payload)
           out == IF topic \notin {"esp32/temperature", "esp32/humidity",
                                   "esp32/motion", "esp32/contact"}
                    THEN "unknown"
                  ELSE IF v = <<>> \/ ~dbOk THEN "error"
                  ELSE IF topic \notin AlertTopics \/ v[1] # 1 THEN "stored"
                  ELSE IF CooldownActive(topic, srv_clock) THEN "cooldown"
                  ELSE "mailing"
       IN  srv_msg' = [topic |-> topic, payload |-> payload, at |-> srv_clock,
                       outcome |-> out]
    /\ UNCHANGED <<LAST_SENT_TIMES, srv_clock, sentLog>>
    /\ UNCHANGED nodeVars

\* the result of the mail attempt with the insert also after a failure
MailResultAlways(ok) ==
    /\ srv_msg.outcome = "mailing"
    /\ srv_msg' = [srv_msg EXCEPT !.outcome = IF ok THEN "sent" ELSE "failed"]
    /\ LAST_SENT_TIMES' = Insert(LAST_SENT_TIMES, srv_msg.topic, srv_msg.at)
    /\ sentLog' = IF ok THEN sentLog \cup {<<srv_msg.topic, srv_msg.at>>} ELSE sentLog
    /\ UNCHANGED srv_clock
    /\ UNCHANGED nodeVars

\* server main.rs 57-63: mailer.send returns; the Instant stored is the one
\* taken before the attempt (line 36)
MailResult(ok) ==
    /\ srv_msg.outcome = "mailing"
    /\ srv_msg' = [srv_msg EXCEPT !.outcome = IF ok THEN "sent" ELSE "failed"]
    /\ IF ok
         THEN /\ LAST_SENT_TIMES' = Insert(LAST_SENT_TIMES, srv_msg.topic, srv_msg.at)
              /\ sentLog' = sentLog \cup {<<srv_msg.topic, srv_msg.at>>}
         ELSE UNCHANGED <<LAST_SENT_TIMES, sentLog>>
    /\ UNCHANGED srv_clock
    /\ UNCHANGED nodeVars

\* time passes, also while mailer.send blocks
SrvElapse(d) ==
    /\ srv_clock + d <= MaxClock
    /\ srv_clock' = srv_clock + d
    /\ UNCHANGED <<LAST_SENT_TIMES, srv_msg, sentLog>>
    /\ UNCHANGED nodeVars

NextSrv ==
    \/ \E topic \in SrvTopics, payload \in Payloads, dbOk \in BOOLEAN :
            Publish(topic, payload, dbOk)
    \/ \E ok \in BOOLEAN : MailResult(ok)
    \/ \E d \in SrvSteps : SrvElapse(d)

SpecSrv == Init /\ [][NextSrv]_srvVars

----------------------------------------------------------------------------
\* Properties of the session manager

\* the requests accepted by the mailbox and not yet sent successfully, oldest first
Unsent ==
    (IF pc \in {"send", "resp_err"} THEN msg ELSE <<>>) \o cached_message \o cmdq

\* C1: a request whose first send attempt failed and whose next attempt succeeded
\* has exactly one failure outcome and then exactly one success outcome emitted
\* for it, both carrying its topic; from its first attempt until its success the
\* request on the wire is this request, so its retry precedes every later request.
C1_FailThenSucceed ==
    /\ (ep.id # 0 /\ ep.fails = 1 /\ lastOk = ep.id) =>
          IF pc = "resp_ok"
          THEN ep.failOuts = 1 /\ ep.okOuts = 0 /\ ep.outTopics = {ep.topic}
          ELSE ep.failOuts = 1 /\ ep.okOuts = 1 /\ ep.outTopics = {ep.topic}
    /\ (pc \in {"send", "resp_ok", "resp_err"}) =>
          msg # <<>> /\ msg[1].id = ep.id /\ msg[1].topic = ep.topic
    /\ (EpisodeOpen /\ ep.fails >= 1) =>
          LET held == msg \o cached_message
          IN  Len(held) = 1 /\ held[1].id = ep.id

\* C1 witness: the retry of a request succeeded after one failure and its success
\* outcome is out, while a request enqueued later still waits in the mailbox.
C1_Witness ==
    /\ ep.fails = 1 /\ lastOk = ep.id /\ ep.okOuts = 1 /\ ep.failOuts = 1
    /\ cmdq # <<>>
    /\ Head(cmdq).topic # ep.topic

\* C2: requests are sent in mailbox order and none is lost: the unsent requests
\* (in flight, cached, queued) are exactly those numbered after the last
\* successful send, in order, so a send is attempted only for the oldest one.
C2_InOrderNoLoss ==
    /\ Len(Unsent) = nextId - 1 - lastOk
    /\ \A k \in 1..Len(Unsent) : Unsent[k].id = lastOk + k
    /\ pc = "send" => msg[1].id = lastOk + 1

\* C2 witness: a retry of the cached request is on the wire after an earlier
\* request succeeded, while newer requests wait in the mailbox.
C2_Witness ==
    /\ pc = "send"
    /\ ep.fails >= 1
    /\ lastOk >= 1
    /\ Len(cmdq) >= 1

\* C3: at most one failure outcome is emitted between two successful sends; it
\* carries the topic of the request that is cached for the retry; and
\* already_sent_error goes back to false only in the step of a successful send.
C3_OneFailurePerEpisode ==
    /\ [](/\ ep.failOuts <= 1
          /\ cached_message # <<>> =>
                ep.failOuts = 1 /\ ep.outTopics = {cached_message[1].topic}
          /\ already_sent_error <=> (EpisodeOpen /\ ep.fails >= 1))
    /\ [][(already_sent_error /\ ~already_sent_error') =>
             (pc = "send" /\ pc' = "resp_ok" /\ lastOk' = msg[1].id)]_vars

\* C3 witness: the same request failed at least twice, with a successful
\* reconnect in between, and one failure outcome was emitted.
C3_Witness ==
    /\ ep.fails = 2
    /\ ep.failOuts = 1
    /\ cached_message # <<>>
    /\ connect_result = "Ok"

\* C5: a request is never put on the wire again after a send of it succeeded; at
\* most one success outcome is emitted for it and only after its successful send;
\* a second attempt happens only after a failed one; every outcome follows a send
\* attempt of a request with the outcome's topic.
C5_NoResendAfterSuccess ==
    /\ pc = "send" => msg[1].id > lastOk
    /\ ep.okOuts <= 1
    /\ ep.okOuts = 1 => lastOk = ep.id
    /\ ep.sends = 2 => ep.fails >= 1
    /\ ep.failOuts >= 1 => ep.fails >= 1
    /\ (ep.failOuts + ep.okOuts > 0) => (ep.sends >= 1 /\ ep.outTopics = {ep.topic})
    /\ \A k \in 1..Len(respq) : k > Len(respq) - (ep.failOuts + ep.okOuts) =>
                                   respq[k].topic = ep.topic

\* C5 witness: a request needed two attempts and its success outcome is out.
C5_Witness ==
    /\ ep.sends = 2
    /\ ep.okOuts = 1
    /\ lastOk = ep.id
    /\ lastOk >= 2

\* C6: MQTT_CMD_CHANNEL never holds more than 20 requests; while it holds 20 a
\* pending Ui::send stays pending and the mailbox changes only by the session
\* manager receiving its head; once there is room the send can complete, and it
\* appends the request behind the queued ones.
C6_Backpressure ==
    /\ [](/\ Len(cmdq) <= CMD_CAP
          /\ (ui_todo # <<>> /\ MQTT_ENABLED /\ Len(cmdq) = CMD_CAP) => ~ENABLED UiSend
          /\ (ui_todo # <<>> /\ Len(cmdq) < CMD_CAP) => ENABLED UiSend)
    /\ [][(ui_todo # <<>> /\ MQTT_ENABLED /\ Len(cmdq) = CMD_CAP) =>
             /\ ui_todo' = ui_todo
             /\ \/ cmdq' = cmdq
                \/ cmdq' = Tail(cmdq) /\ msg' = <<Head(cmdq)>>]_vars
    /\ [][(ui_todo # <<>> /\ ui_todo' # ui_todo /\ MQTT_ENABLED) =>
             /\ Len(cmdq) < CMD_CAP
             /\ cmdq' = Append(cmdq, [Head(ui_todo) EXCEPT !.id = nextId])]_vars

\* C6 witness: the mailbox holds 20 requests and the orchestrator is suspended in
\* Ui::send with the 21st.
C6_Witness ==
    /\ Len(cmdq) = CMD_CAP
    /\ ui_todo # <<>>
    /\ MQTT_ENABLED
    /\ nextId = CMD_CAP + 1

\* C7: a publish or a keep-alive is on the wire only while the session is
\* Connected (the last connect returned Ok, no send or ping failed since and no
\* reconnect is asked for) and with a client present; the expect of main.rs 199
\* never fires.
C7_OnlyWhileConnected ==
    /\ pc # "panicked"
    /\ pc \in {"send", "ping", "recv", "resp_ok", "yield"} =>
          /\ session = "Connected"
          /\ client = "Some"
          /\ ~should_reconnect
          /\ connect_result = "Ok"
    /\ session # "Connected" =>
          pc \in {"sleep", "connect_clear", "connect_tcp", "connect_handshake", "resp_err"}

\* C7 witness: a keep-alive is on the wire while a request that failed before is
\* cached: it is sent after the failure only because a reconnect succeeded.
C7_Witness ==
    /\ pc = "ping"
    /\ cached_message # <<>>
    /\ ep.fails >= 1

\* C9: at most one object references the static buffers; when connect() takes the
\* buffers to zero them nothing references them; the new socket, then the new
\* client, is the only holder and starts on zeroed buffers.
C9_ExclusiveBuffers ==
    /\ Cardinality(Holders) <= 1
    /\ pc = "connect_clear" => Holders = {}
    /\ pc = "connect_tcp" => Holders = {"socket"} /\ dirty = {}
    /\ pc = "connect_handshake" => Holders = {"client"} /\ dirty = {}
    /\ pc \notin {"connect_tcp", "connect_handshake"} => live = {}

\* C9 witness: a reconnect after a session that published: the buffers had been
\* written and a client had existed, and the new socket holds zeroed buffers.
C9_Witness ==
    /\ pc = "connect_tcp"
    /\ lastOk >= 1
    /\ connect_result = "Ok"

\* C10: connect() returns ConnectionFailed when socket.connect fails and
\* ProtocolError when connect_to_broker fails; after either the session holds no
\* client, a client is held only after a connect that returned Ok, and the task
\* goes back to its timer with the reconnect still asked for.
C10_ConnectErrors ==
    /\ [](/\ connect_result \in {"ConnectionFailed", "ProtocolError"} => client = "None"
          /\ client = "Some" => connect_result = "Ok"
          /\ pc = "sleep" => ENABLED (TickReconnect \/ TickConnected))
    /\ [][(pc = "connect_tcp" /\ pc' # pc) =>
             IF netUp
             THEN pc' = "connect_handshake" /\ UNCHANGED <<connect_result, client>>
             ELSE /\ connect_result' = "ConnectionFailed"
                  /\ client' = "None"
                  /\ pc' = "sleep" /\ should_reconnect']_vars
    /\ [][(pc = "connect_handshake" /\ pc' # pc) =>
             IF netUp
             THEN connect_result' = "Ok" /\ client' = "Some"
             ELSE /\ connect_result' = "ProtocolError"
                  /\ client' = "None"
                  /\ pc' = "sleep" /\ should_reconnect']_vars

\* C10 witness: a reconnect failed after a session that published, the old client
\* is gone and the task is back at its timer.
C10_Witness ==
    /\ connect_result = "ProtocolError"
    /\ pc = "sleep"
    /\ client = "None"
    /\ lastOk >= 1

\* the request numbered i waits in the mailbox, in the cache or on the wire
IsUnsent(i) == \E k \in 1..Len(Unsent) : Unsent[k].id = i
\* the request numbered i was sent successfully and its Ok response is out
IsDelivered(i) == lastOk = i /\ ep.id = i /\ ep.okOuts = 1

\* C4: if from some point on the transport accepts every operation and publishing
\* stays enabled, and MQTT_RESP_CHANNEL is not full for ever (the orchestrator
\* keeps reading it), then every request that waits in the mailbox, in the cache
\* or on the wire is eventually sent successfully and its Ok response emitted.
C4_EventuallyDelivered ==
    (<>[]netUp /\ <>[]MQTT_ENABLED /\ []<>(Len(respq) < RESP_CAP)) =>
        \A i \in 1..MaxLive : [](IsUnsent(i) => <>IsDelivered(i))

\* C4 witness: a request that failed and was cached has been delivered, and its
\* Ok response emitted, after a reconnect.
C4_Witness ==
    /\ ep.fails >= 1
    /\ IsDelivered(ep.id)
    /\ Unsent = <<>>
    /\ netUp /\ MQTT_ENABLED

\* C8: a round that starts while the session is not Connected starts with
\* connect(); a failed connect() ends the round at once, without a ping and
\* without touching the mailbox, the cache or the responses, and leaves the
\* reconnect asked for, so the next round connects again after the same 500 ms
\* timer; if the transport accepts from some point on, a session that asks for a
\* reconnect becomes Connected.
C8_ReconnectForever ==
    /\ []((pc = "sleep" /\ session # "Connected") =>
             (should_reconnect /\ ENABLED TickReconnect /\ ~ENABLED TickConnected))
    /\ [][(pc = "sleep" /\ should_reconnect /\ pc' # pc) => pc' = "connect_clear"]_vars
    /\ [][(pc \in {"connect_tcp", "connect_handshake"} /\ session' = "Disconnected") =>
             /\ pc' = "sleep"
             /\ should_reconnect'
             /\ UNCHANGED <<cmdq, respq, cached_message, msg, idle5>>]_vars
    /\ (<>[]netUp => [](should_reconnect => <>(session = "Connected")))

\* C8 witness: connect() is attempted again in the round after a failed attempt.
C8_Witness ==
    /\ pc = "connect_tcp"
    /\ connect_result \in {"ConnectionFailed", "ProtocolError"}
    /\ cached_message # <<>>

\* C11: a round that starts Connected with 5 s elapsed since last_ping sends the
\* keep-alive before anything is taken from the mailbox or the cache; a keep-alive
\* that fails makes the session Disconnected, asks for a reconnect and ends the
\* round with the mailbox, the cache and the wire untouched, so the next round
\* starts with connect(); a successful connect, a successful ping and a successful
\* send (once its Ok response is out, main.rs 211-212) restart the idle clock.
C11_KeepAlive ==
    /\ [][(pc = "sleep" /\ ~should_reconnect /\ idle5 /\ pc' # pc) =>
             /\ pc' = "ping"
             /\ UNCHANGED <<cmdq, cached_message, msg, idle5>>]_vars
    /\ [][(pc = "ping" /\ pc' # pc /\ ~netUp) =>
             /\ session' = "Disconnected"
             /\ should_reconnect'
             /\ pc' = "sleep"
             /\ UNCHANGED <<cmdq, cached_message, msg, respq>>]_vars
    /\ [][(pc = "sleep" /\ should_reconnect /\ pc' # pc) => pc' = "connect_clear"]_vars
    /\ [][(\/ pc = "connect_handshake" /\ session' = "Connected"
           \/ pc = "ping" /\ pc' # pc /\ netUp
           \/ pc = "resp_ok" /\ pc' # pc) => ~idle5']_vars
    /\ [](pc = "ping" => (idle5 /\ session = "Connected" /\ msg = <<>>))

\* C11 witness: a keep-alive failed while a request waited in the mailbox: the
\* request is still there, nothing is cached or on the wire and a reconnect is
\* asked for.
C11_Witness ==
    /\ pc = "sleep"
    /\ should_reconnect
    /\ client = "Some"
    /\ session = "Disconnected"
    /\ cached_message = <<>>
    /\ cmdq # <<>>
    /\ idle5

\* C12: a round that reaches the publishing-enabled check with the flag off takes
\* nothing from the mailbox or the cache and puts nothing on the wire: the mailbox
\* and the cache are unchanged and the round ends; the reconnect stage and the
\* keep-alive stage of such a round still run.
C12_FlagOffSkipsDrain ==
    /\ [][(~MQTT_ENABLED /\ pc \in {"sleep", "connect_handshake", "ping"}) =>
             /\ pc' \in {"sleep", "connect_clear", "connect_handshake", "ping"}
             /\ msg' = <<>>
             /\ Len(respq') <= Len(respq)
             /\ UNCHANGED <<cmdq, cached_message, lastOk, ep>>]_vars
    /\ [][(~MQTT_ENABLED /\ pc = "sleep" /\ pc' # pc) =>
             pc' = (IF should_reconnect THEN "connect_clear" ELSE "ping")]_vars
    /\ [][(~MQTT_ENABLED /\ pc = "connect_handshake" /\ pc' # pc) => pc' = "sleep"]_vars
    /\ []((~MQTT_ENABLED /\ pc = "sleep") =>
             IF should_reconnect THEN ENABLED TickReconnect
             ELSE idle5 => ENABLED (TickConnected /\ pc' = "ping"))

\* C12 witness: the session was re-established with the flag off while a failed
\* request sat in the cache and another waited in the mailbox: both are still
\* there after the round.
C12_Witness ==
    /\ ~MQTT_ENABLED
    /\ pc = "sleep"
    /\ ~should_reconnect
    /\ session = "Connected"
    /\ cached_message # <<>>
    /\ cmdq # <<>>

----------------------------------------------------------------------------
\* Properties of the DHT11 decoder

\* the positions of read() inside critical_section::with (dht11.rs 41-75)
InTimedPart == dpc \in {"wait_low1", "wait_high", "wait_low2", "data", "tail"}
\* all 40 data bits were read
AllBitsRead == byte = DHT_BUFFER_SIZE - 1 /\ bit = 0 /\ dpc = "tail"
Err(e) == <<"Err", e>>

\* C13: for every received frame the checksum test gives Ok((byte2, byte0)) exactly
\* when byte4 = (byte0 + byte1 + byte2 + byte3) mod 256 and ChecksumMismatch
\* otherwise, also when the four bytes sum to more than 255 (the sum wraps, it
\* does not trap).
C13_ChecksumWraps ==
    [][(dpc = "tail" /\ dpc' # dpc) =>
          read_result' = (IF buffer[5] = Sum4(buffer) % 256
                          THEN <<"Ok", buffer[3], buffer[1]>>
                          ELSE Err("ChecksumMismatch"))]_dhtVars

\* C14: a data bit is decoded as 1 exactly when the measured high pulse is longer
\* than 40 us: 40 gives 0, 41 gives 1, a pulse measured up to the 100 us cap
\* (reading 101) gives 1; the other bits of the buffer are left as they are.
C14_BitThreshold ==
    [][(dpc = "data" /\ read_result' = <<>> /\ <<byte, bit, dpc>> # <<byte', bit', dpc'>>) =>
          /\ buffer' = [buffer EXCEPT ![byte + 1] =
                           @ + (IF high_time' > 40 THEN 2 ^ bit ELSE 0)]
          /\ BitOf(buffer'[byte + 1], bit) = (IF high_time' > 40 THEN 1 ELSE 0)
          /\ high_time' = 40 => BitOf(buffer'[byte + 1], bit) = 0
          /\ high_time' = 41 => BitOf(buffer'[byte + 1], bit) = 1
          /\ high_time' = 101 => BitOf(buffer'[byte + 1], bit) = 1]_dhtVars

\* C14 witness: in byte 0 the first pulse was decoded as 1 and the second one,
\* measured at exactly 40 us, as 0.
C14_Witness ==
    /\ dpc = "data"
    /\ byte = 0
    /\ bit = 5
    /\ high_time = 40
    /\ buffer[1] = 128

\* C15: when the first k reads fail and read k+1 succeeds (k < retry_count),
\* read_with_retry returns that reading at once, after exactly k+1 reads and
\* exactly k waits of 100 ms, and makes no further read.
C15_RetryThenSuccess ==
    /\ []((dpc = "idle" /\ ret # <<>> /\ ret[1] = "Ok") =>
             /\ Len(errs) < retry_count
             /\ reads = Len(errs) + 1
             /\ sleeps = Len(errs)
             /\ ret = read_result
             /\ ret = <<"Ok", buffer[3], buffer[1]>>)
    /\ [][(read_result' # read_result /\ read_result' # <<>> /\ read_result'[1] = "Ok") =>
             /\ dpc' = "idle"
             /\ ret' = read_result'
             /\ UNCHANGED <<reads, sleeps, errs>>]_dhtVars
    /\ [][(dpc = "idle" /\ reads' # reads) => (reads' = 1 /\ ret' = <<>>)]_dhtVars

\* C15 witness: read_with_retry(3) returned the reading of its third read after
\* two failed reads and two waits.
C15_Witness ==
    /\ dpc = "idle"
    /\ ret = <<"Ok", 21, 40>>
    /\ retry_count = 3
    /\ Len(errs) = 2
    /\ reads = 3
    /\ sleeps = 2

\* C16: when every read fails, read_with_retry makes exactly retry_count reads,
\* waits 100 ms after each failed read before the next read starts (and once more
\* after the last one), and returns the error of the last read.
C16_AllFail ==
    /\ []((dpc = "idle" /\ ret # <<>> /\ ret[1] = "Err") =>
             /\ reads = retry_count
             /\ Len(errs) = retry_count
             /\ ret = Err(errs[retry_count])
             /\ sleeps = retry_count)
    /\ []((dpc # "idle" /\ dpc # "retry_wait") => (sleeps = reads - 1 /\ Len(errs) = reads - 1))
    /\ [](dpc = "retry_wait" => (sleeps = reads /\ Len(errs) = reads /\ reads <= retry_count))

\* C16 witness: three reads failed with three different errors and the error
\* returned is the third one.
C16_Witness ==
    /\ dpc = "idle"
    /\ errs = <<"NoResponse", "InvalidResponse", "ChecksumMismatch">>
    /\ ret = Err("ChecksumMismatch")
    /\ reads = 3

\* C17: read() fails with the error of the first wait that times out: NoResponse
\* exactly when the first wait for low runs past 50 us; InvalidResponse when the
\* wait for high or the second wait for low runs past 100 us, or the wait for the
\* high start of a data bit runs past 60 us; ChecksumMismatch only after all 40
\* bits were read.  A wait that ends in time goes on to the next step.
C17_ErrorByStep ==
    /\ [][(dpc = "wait_low1" /\ dpc' # dpc) =>
             IF waited' > 50 THEN read_result' = Err("NoResponse")
             ELSE read_result' = <<>> /\ dpc' = "wait_high"]_dhtVars
    /\ [][(dpc = "wait_high" /\ dpc' # dpc) =>
             IF waited' > 100 THEN read_result' = Err("InvalidResponse")
             ELSE read_result' = <<>> /\ dpc' = "wait_low2"]_dhtVars
    /\ [][(dpc = "wait_low2" /\ dpc' # dpc) =>
             IF waited' > 100 THEN read_result' = Err("InvalidResponse")
             ELSE read_result' = <<>> /\ dpc' = "data"]_dhtVars
    /\ [][(dpc = "data" /\ <<byte, bit, dpc>> # <<byte', bit', dpc'>>) =>
             IF waited' > 60 THEN read_result' = Err("InvalidResponse")
             ELSE read_result' = <<>> /\ dpc' \in {"data", "tail"}]_dhtVars
    /\ [][(read_result' # read_result /\ read_result' = Err("NoResponse")) =>
             dpc = "wait_low1"]_dhtVars
    /\ [][(read_result' # read_result /\ read_result' = Err("InvalidResponse")) =>
             dpc \in {"wait_high", "wait_low2", "data"}]_dhtVars
    /\ [][(read_result' # read_result /\ read_result' = Err("ChecksumMismatch")) =>
             AllBitsRead]_dhtVars

\* C17 witness: the high start of a bit in the middle of the frame came too late
\* and the read ended with InvalidResponse.
C17_Witness ==
    /\ read_result = Err("InvalidResponse")
    /\ byte = 2
    /\ bit = 3
    /\ waited = 61

\* C18: from the release of the line to the end of the frame (the trailing 50 us
\* delay included) or to the early error return, read() is inside the critical
\* section and no other task or interrupt handler runs; during the 20 ms reset
\* and the 100 ms retry wait the critical section is not held and others can run;
\* the critical section is left on every path out of read().
C18_CriticalSection ==
    /\ [](cs <=> InTimedPart)
    /\ [][other' # other => (~InTimedPart /\ ~InTimedPart')]_dhtVars
    /\ [](dpc \in {"reset", "retry_wait", "idle"} => ENABLED OtherRuns)
    /\ [][(read_result' # read_result /\ read_result' # <<>>) => ~cs']_dhtVars

\* C18 witness: another task ran while a read that had failed in the middle of
\* the frame waited to be retried.
C18_Witness ==
    /\ dpc = "retry_wait"
    /\ read_result = Err("InvalidResponse")
    /\ byte = 1
    /\ ~cs
    /\ other

----------------------------------------------------------------------------
\* Properties of the debounced input sources

\* C19: for every debounced source, an active edge after which the line stays
\* active for the whole 20 ms window produces exactly one event (sent at once, or
\* by the one send the task suspends in when the mailbox is full), and an edge
\* after which the line returns to the inactive level within the window produces
\* no event.
C19_Debounce ==
    /\ [][\A s \in Sources :
             (spc[s] = "debounce" /\ spc'[s] # "debounce" /\ ~bounced[s]) =>
                 \/ /\ spc'[s] = AfterSend(s)
                    /\ QueueOf(s, buttonq', sensorq') = Append(QueueOf(s, buttonq, sensorq), s)
                 \/ /\ spc'[s] = "send"
                    /\ UNCHANGED <<buttonq, sensorq>>]_srcVars
    /\ [][\A s \in Sources :
             (spc[s] = "send" /\ spc'[s] # "send") =>
                 QueueOf(s, buttonq', sensorq') = Append(QueueOf(s, buttonq, sensorq), s)]_srcVars
    /\ [][\A s \in Sources :
             (spc[s] = "debounce" /\ spc'[s] # "debounce" /\ bounced[s]) =>
                 /\ spc'[s] \notin {"send", "rearm"}
                 /\ UNCHANGED <<buttonq, sensorq>>]_srcVars

\* C20: a motion or contact source puts no alert into SENSOR_CHANNEL while its
\* enable flag is off, whatever it was waiting for when the flag was turned off.
C20_NoAlertWhileDisabled ==
    [][\A s \in SensorMessage :
          (Len(sensorq') > Len(sensorq) /\ sensorq'[Len(sensorq')] = s) => enabled[s]]_srcVars

\* the step puts an event of source s into its mailbox
Accepted(s) ==
    LET q == QueueOf(s, buttonq, sensorq)
        r == QueueOf(s, buttonq', sensorq')
    IN  Len(r) > Len(q) /\ r[Len(r)] = s

\* C21: when the mailbox accepts an alert of a motion or contact source, at least
\* the re-arm interval has passed since the mailbox accepted the previous alert of
\* that source, the interval being the read delay the source loaded right after
\* that previous acceptance; the interval loaded is within 2..30 s and the source
\* sleeps for it.  A button source is back at waiting for its line as soon as its
\* event is accepted: it has no such delay.
C21_RearmDelay ==
    /\ [][\A s \in SensorMessage :
             Accepted(s) =>
                 /\ since[s] >= armed[s]
                 /\ armed'[s] = read_delay[s]
                 /\ armed'[s] \in GENERIC_MIN_READ_DELAY..GENERIC_MAX_READ_DELAY
                 /\ spc'[s] = "rearm"
                 /\ timer'[s] = armed'[s]
                 /\ since'[s] = 0]_srcVars
    /\ [][\A s \in SensorMessage :
             since'[s] > since[s] => (timer'[s] < timer[s] \/ timer[s] = 0)]_srcVars
    /\ [][\A b \in ButtonType : Accepted(b) => spc'[b] = "wait"]_srcVars

\* a sensor whose previous alert armed an interval above the minimum has slept
\* for all of it and is confirming its next alert, which the empty mailbox accepts
C21_Witness ==
    \E s \in SensorMessage :
        /\ spc[s] = "debounce"
        /\ pin[s]
        /\ armed[s] > GENERIC_MIN_READ_DELAY
        /\ since[s] = armed[s]
        /\ sensorq = <<>>

\* C23: SENSOR_CHANNEL never holds more than one alert.  A motion or contact
\* source whose alert is confirmed while the mailbox holds an unconsumed alert
\* suspends in send and leaves the mailbox as it is; it leaves the send only by
\* appending its own alert to a mailbox the orchestrator has emptied, and it
\* can do so whenever the mailbox is empty.  The mailbox changes only by one
\* alert being appended or by its oldest alert being consumed: no alert is
\* overwritten or dropped.
C23_SensorBackpressure ==
    /\ [](Len(sensorq) <= SENSOR_CAP)
    /\ [](\A s \in SensorMessage :
             (spc[s] = "send" /\ sensorq = <<>>) => ENABLED SourceSend(s))
    /\ [][\A s \in SensorMessage :
             /\ (spc[s] = "debounce" /\ spc'[s] # "debounce" /\ pin[s]
                    /\ Len(sensorq) = SENSOR_CAP)
                   => (spc'[s] = "send" /\ sensorq' = sensorq)
             /\ (spc[s] = "send" /\ spc'[s] # "send")
                   => (Len(sensorq) < SENSOR_CAP /\ sensorq' = Append(sensorq, s))]_srcVars
    /\ [][\/ sensorq' = sensorq
          \/ \E s \in SensorMessage : sensorq' = Append(sensorq, s)
          \/ sensorq # <<>> /\ sensorq' = Tail(sensorq)]_srcVars

\* the motion source is suspended in send behind an unconsumed contact alert
C23_Witness ==
    /\ spc["MotionSensor"] = "send"
    /\ sensorq = <<"ContactSensor">>

----------------------------------------------------------------------------
\* Properties of the configuration screens

\* the three intervals: DHT read delay, MOTION_READ_DELAY, CONTACT_READ_DELAY
IntervalOf(sel) == DelayOf(sel, dht_delay, read_delay)
IntervalAfter(sel) == DelayOf(sel, dht_delay', read_delay')
Intervals == {"DHT", "Motion", "Contact"}

\* the step is the handling of a press of the increase (up) or of the decrease
\* button in ModifyingDelay state
DelayPress(up) ==
    /\ ui_state = "ModifyingDelay"
    /\ HandleButtonPress(IF up THEN "B" ELSE "C")

\* the value the claim expects in an interval that holds d after increase_delay
\* (up) or decrease_delay has run on it
ByOne(d, up) ==
    IF up THEN (IF d = GENERIC_MAX_READ_DELAY THEN d ELSE d + 1)
    ELSE (IF d = GENERIC_MIN_READ_DELAY THEN d ELSE d - 1)

\* C22 as stated: every interval stays within [2, 30]; increase_delay at 30 and
\* decrease_delay at 2 store nothing, and in every other case they change the
\* selected interval by exactly 1.
C22_AlwaysByOne ==
    /\ \A i \in Intervals :
           IntervalOf(i) \in GENERIC_MIN_READ_DELAY..GENERIC_MAX_READ_DELAY
    /\ \A up \in BOOLEAN :
           (ui_state = "ModifyingDelay" /\ selection \in Intervals) =>
               ENABLED (/\ DelayPress(up)
                        /\ IntervalAfter(selection) = ByOne(IntervalOf(selection), up))

\* C22 (amended): every interval stays within [2, 30]; while the selected source
\* is enabled, increase_delay at 30 and decrease_delay at 2 store nothing and in
\* every other case they change the selected interval by exactly 1, the value
\* stored being the value read back; while the selected source is disabled they
\* store nothing; the intervals that are not selected keep their values.
C22_IntervalsInRange ==
    /\ \A i \in Intervals :
           IntervalOf(i) \in GENERIC_MIN_READ_DELAY..GENERIC_MAX_READ_DELAY
    /\ \A up \in BOOLEAN :
           (ui_state = "ModifyingDelay" /\ selection \in Intervals) =>
               ENABLED (/\ DelayPress(up)
                        /\ IntervalAfter(selection) =
                              IF is_selection_enabled(selection)
                              THEN ByOne(IntervalOf(selection), up)
                              ELSE IntervalOf(selection)
                        /\ \A i \in Intervals \ {selection} :
                               IntervalAfter(i) = IntervalOf(i))

\* the increase button is about to be pressed on an enabled interval that is at
\* the maximum, while another interval is at the minimum and a third in between
C22_Witness ==
    /\ ui_state = "ModifyingDelay"
    /\ selection = "Motion"
    /\ enabled["MotionSensor"]
    /\ read_delay["MotionSensor"] = GENERIC_MAX_READ_DELAY
    /\ read_delay["ContactSensor"] = GENERIC_MIN_READ_DELAY
    /\ dht_delay = GENERIC_MAX_READ_DELAY - 1

----------------------------------------------------------------------------
\* Properties of the UI loop

\* the step removes the oldest event of the mailbox whose contents go from q to r
Consumed(q, r) == q # <<>> /\ r = Tail(q)

\* the step leaves the mailbox alone, appends one event to it, or removes its
\* oldest event and starts the handler of kind k on that event
OnceEach(q, r, k) ==
    \/ r = q
    \/ Len(r) = Len(q) + 1 /\ SubSeq(r, 1, Len(q)) = q
    \/ Consumed(q, r) /\ handling' = <<k, Head(q)>>

\* the step starts Ui::tick
TickStarts ==
    /\ ui_todo = <<>>
    /\ handling' = <<"Tick">>
    /\ handling # <<"Tick">> \/ ui_todo' # <<>>

\* C24: an event leaves BUTTON_CHANNEL, SENSOR_CHANNEL or MQTT_RESP_CHANNEL only
\* as the oldest event of its mailbox and in the step that starts its handler on
\* it, so it is handled once and none is dropped; in the setup states sensor
\* alerts and outcomes are not taken out (they stay queued, a full mailbox keeps
\* its producer waiting) and the orchestrator at the select in Displaying state
\* can take them; no step takes events out of two mailboxes.
C24_ExactlyOnce ==
    /\ [][/\ OnceEach(buttonq, buttonq', "Button")
          /\ OnceEach(sensorq, sensorq', "Sensor")
          /\ OnceEach(respq, respq', "Outcome")
          /\ ui_state # "Displaying" =>
                (~Consumed(sensorq, sensorq') /\ ~Consumed(respq, respq'))
          /\ ~(Consumed(buttonq, buttonq') /\ Consumed(sensorq, sensorq'))
          /\ ~(Consumed(buttonq, buttonq') /\ Consumed(respq, respq'))
          /\ ~(Consumed(sensorq, sensorq') /\ Consumed(respq, respq'))]_loopVars
    /\ [](ui_state # "Displaying" =>
             (\A s \in SensorMessage : Len(sensorq) = SENSOR_CAP => ~ENABLED SensorEvent(s)))
    /\ []((AtSelect /\ ui_state = "Displaying" /\ buttonq = <<>>) =>
             /\ sensorq # <<>> => ENABLED LoopSensor
             /\ (sensorq = <<>> /\ respq # <<>>) => ENABLED LoopOutcome)

\* in a setup state a button event, a sensor alert and an outcome are waiting
C24_Witness ==
    /\ ui_state # "Displaying"
    /\ buttonq # <<>>
    /\ sensorq # <<>>
    /\ respq # <<>>

\* C25: in Displaying state a sensor alert is taken only when no button event is
\* pending, an outcome only when neither a button event nor a sensor alert is
\* pending, and the tick runs only when the three mailboxes are empty; every step
\* of the loop starts one handler on one event; with a button event pending at
\* the select, the button handler is the one that runs.
C25_Priority ==
    /\ [][/\ Consumed(sensorq, sensorq') =>
                (ui_state = "Displaying" /\ buttonq = <<>>)
          /\ Consumed(respq, respq') =>
                (ui_state = "Displaying" /\ buttonq = <<>> /\ sensorq = <<>>)
          /\ TickStarts =>
                (ui_state = "Displaying" /\ buttonq = <<>> /\ sensorq = <<>> /\ respq = <<>>)
          /\ handling' # handling =>
                \/ Consumed(buttonq, buttonq') /\ handling' = <<"Button", Head(buttonq)>>
                      /\ sensorq' = sensorq /\ respq' = respq
                \/ Consumed(sensorq, sensorq') /\ handling' = <<"Sensor", Head(sensorq)>>
                      /\ buttonq' = buttonq /\ respq' = respq
                \/ Consumed(respq, respq') /\ handling' = <<"Outcome", Head(respq)>>
                      /\ buttonq' = buttonq /\ sensorq' = sensorq
                \/ TickStarts /\ buttonq' = buttonq /\ sensorq' = sensorq
                      /\ respq' = respq]_loopVars
    /\ []((AtSelect /\ ui_state = "Displaying" /\ buttonq # <<>>) =>
             (ENABLED LoopButton /\ ~ENABLED LoopSensor /\ ~ENABLED LoopOutcome))
    /\ []((AtSelect /\ ui_state = "Displaying" /\ buttonq = <<>> /\ sensorq # <<>>) =>
             (ENABLED LoopSensor /\ ~ENABLED LoopOutcome))

\* the handler of a sensor alert has been started in Displaying state while an
\* outcome was waiting in its mailbox
C25_Witness ==
    /\ ui_state = "Displaying"
    /\ \E s \in SensorMessage : handling = <<"Sensor", s>>
    /\ ui_todo # <<>>
    /\ respq # <<>>

\* C26: a button event in BUTTON_CHANNEL is eventually handled by the
\* orchestrator, also when the broker is unreachable forever.  (The button events
\* of a run are finitely many, so every one of them is handled exactly when the
\* mailbox is empty again after every state in which it is not.)
C26_ButtonEventuallyHandled == (buttonq # <<>>) ~> (buttonq = <<>>)

\* the enable flag that the selection sel stands for, in a state whose flags are
\* de (DHT), en (sensors) and mq (MQTT)
FlagOf(sel, de, en, mq) ==
    CASE sel = "DHT" -> de
      [] sel = "MQTT" -> mq
      [] OTHER -> en[SensorOf(sel)]

\* C27: a step that changes an enable flag or an interval is the orchestrator
\* handling a button event in ModifyingDelay state: button A when a flag changes,
\* and then it is the selected flag alone that changes and no interval; button B
\* or C when an interval changes, and then it is the selected interval alone and
\* no flag.  Every other step (of a source, of the session manager, of the
\* handlers of sensor alerts, outcomes and ticks, of Ui::send, of a button press
\* in Displaying or SelectingDelay state) leaves flags and intervals unchanged.
C27_ConfigWriters ==
    [][(flagVars' # flagVars \/ delayVars' # delayVars) =>
          /\ ui_state = "ModifyingDelay"
          /\ Consumed(buttonq, buttonq')
          /\ handling' = <<"Button", Head(buttonq)>>
          /\ flagVars' # flagVars =>
                /\ Head(buttonq) = "A"
                /\ delayVars' = delayVars
                /\ \A s \in DelaySelection \ {selection} :
                       FlagOf(s, dht_enabled', enabled', MQTT_ENABLED') =
                           FlagOf(s, dht_enabled, enabled, MQTT_ENABLED)
          /\ delayVars' # delayVars =>
                /\ Head(buttonq) \in {"B", "C"}
                /\ flagVars' = flagVars
                /\ selection \in Intervals
                /\ \A i \in Intervals \ {selection} :
                       IntervalAfter(i) = IntervalOf(i)]_loopVars

\* button A has been handled in ModifyingDelay state and has turned the DHT off
C27_Witness ==
    /\ ui_state = "ModifyingDelay"
    /\ handling = <<"Button", "A">>
    /\ ~dht_enabled

----------------------------------------------------------------------------
\* Independence of the reads of the decoder

\* the bit at position (k, b) is filled before the position (byte, bit) is
Filled(k, b) == k < byte \/ (k = byte /\ b > bit)

\* C31: what a read returns depends only on the pulses seen during that read:
\* the buffer is all zero from the start of every read until its first data
\* bit, also after a read that succeeded, failed the checksum or was given up
\* in the middle of a frame; the bits are filled from bit 7 down to bit 0 of
\* byte 0 up to byte 4, every bit filled is the one decoded from its own pulse
\* and every bit not yet filled is 0; the value or error returned is the one of
\* the frame of this read.
C31_ReadIndependent ==
    /\ [](dpc \in {"reset", "wait_low1", "wait_high", "wait_low2"} =>
            buffer = [k \in 1..DHT_BUFFER_SIZE |-> 0])
    /\ [](dpc = "data" =>
            \A k \in 0..(DHT_BUFFER_SIZE - 1), b \in 0..7 :
                BitOf(buffer[k + 1], b) =
                    IF Filled(k, b) THEN BitOf(frame[k + 1], b) ELSE 0)
    /\ [](dpc = "tail" => buffer = frame)
    /\ [][(dpc = "data" /\ read_result' = <<>>) =>
             /\ buffer' = [buffer EXCEPT ![byte + 1] =
                                @ + (IF high_time' > 40 THEN 2 ^ bit ELSE 0)]
             /\ IF bit > 0 THEN byte' = byte /\ bit' = bit - 1
                ELSE IF byte < DHT_BUFFER_SIZE - 1 THEN byte' = byte + 1 /\ bit' = 7
                ELSE dpc' = "tail"]_dhtVars
    /\ [][dpc = "tail" =>
             read_result' \in
                 (IF frame[5] = Sum4(frame) % 256
                  THEN {<<"Ok", frame[3], frame[1]>>}
                  ELSE {<<"Err", "ChecksumMismatch">>})
                 \cup (IF Sum4(frame) > 255 THEN {<<"panic">>} ELSE {})]_dhtVars

\* a read returns the reading of its own frame right after a read of the same
\* call that received a whole frame and rejected it
C31_Witness ==
    /\ reads = 2
    /\ errs = <<"ChecksumMismatch">>
    /\ read_result = <<"Ok", 21, 40>>
    /\ frame = <<40, 0, 21, 0, 61>>

----------------------------------------------------------------------------
\* The panics of the orchestrator

\* C34: handle_sensor_message and handle_mqtt_response start only in Displaying
\* state: in SelectingDelay and ModifyingDelay the UI loop takes events from
\* BUTTON_CHANNEL only, so neither handler reaches its panic "... received
\* outside of displaying state", whatever the order of button, sensor and
\* outcome events.
C34_HandlersInDisplaying ==
    /\ [](ui_panic \notin {"UI: Sensor message received outside of displaying state",
                           "UI: MQTT response received outside of displaying state"})
    /\ [][(handling' # handling /\ handling'[1] \in {"Sensor", "Outcome"}) =>
             (ui_state = "Displaying" /\ ui_state' = "Displaying")]_loopVars
    /\ [][(ui_state # "Displaying" /\ handling' # handling) =>
             (handling'[1] = "Button" /\ sensorq' = sensorq
              /\ Len(respq') >= Len(respq))]_loopVars
    /\ [](ui_state # "Displaying" => (~ENABLED LoopSensor /\ ~ENABLED LoopOutcome))

\* a button press was handled in ModifyingDelay state while a sensor alert and
\* an outcome were waiting in their mailboxes
C34_Witness ==
    /\ ui_state = "ModifyingDelay"
    /\ \E b \in ButtonType : handling = <<"Button", b>>
    /\ Len(sensorq) = SENSOR_CAP
    /\ respq # <<>>
    /\ ui_panic = ""

OrchestratorSuspended == ui_todo # <<>> /\ MQTT_ENABLED /\ Len(cmdq) = CMD_CAP
\* the session manager is suspended in response_sender.send on the full
\* MQTT_RESP_CHANNEL
ManagerSuspended == pc \in {"resp_ok", "resp_err"} /\ Len(respq) = RESP_CAP

\* C36: the orchestrator and the session manager never wait on each other in a
\* cycle: in no reachable state is the orchestrator suspended in a send to the
\* full publish-request mailbox while the session manager is suspended in a send
\* to the full publish-outcome mailbox.
C36_NoMutualWait == ~(OrchestratorSuspended /\ ManagerSuspended)

\* C37: emitting a PublishOutcome never suspends the session manager: whenever
\* it is about to emit one, the publish-outcome mailbox holds fewer than 20
\* unconsumed outcomes.
C37_OutcomeNeverSuspends == (pc \in {"resp_ok", "resp_err"}) => Len(respq) < RESP_CAP

\* the session manager is suspended on the full mailbox while the orchestrator
\* waits for a button in a setup state
SuspendedDuringSetup == ManagerSuspended /\ ui_state = "SelectingDelay" /\ AtSelect

\* C38: while the publishing-enabled flag is off the session manager puts no
\* publish on the wire: no send_message is begun in a state where the flag is
\* off, also when requests are still queued or a drain is in progress.
C38_NoSendWhileOff == [][(pc # "send" /\ pc' = "send") => MQTT_ENABLED]_vars

\* C39: while the publishing-enabled flag is off the orchestrator enqueues no
\* PublishRequest: Ui::send returns at once without touching the publish-request
\* mailbox, whose length never grows while the flag is off.
C39_NoEnqueueWhileOff ==
    /\ []((ui_todo # <<>> /\ ~MQTT_ENABLED) =>
            ENABLED (UiSend /\ cmdq' = cmdq /\ ui_todo' = Tail(ui_todo)))
    /\ [][~MQTT_ENABLED => (Len(cmdq') <= Len(cmdq) /\ nextId' = nextId)]_vars
    /\ [][(~MQTT_ENABLED /\ ui_todo' # ui_todo /\ ui_todo # <<>>) => cmdq' = cmdq]_vars

\* C39 witness: a tick passed a temperature to Ui::send with the flag off and is
\* about to pass the humidity; nothing has entered the mailbox
C39_Witness ==
    /\ ~MQTT_ENABLED
    /\ Len(ui_todo) = 1
    /\ ui_todo[1].topic = "Humidity"
    /\ cmdq = <<>>
    /\ nextId = 1

\* C40: a press of the increase or of the decrease button in ModifyingDelay
\* state while the selected source (DHT, motion or contact) is disabled, or
\* while MQTT is selected, leaves every interval and every enable flag
\* unchanged; an interval changes only while it is selected and its source is
\* enabled.
C40_DisabledUnchanged ==
    /\ [](\A up \in BOOLEAN :
             (/\ ui_state = "ModifyingDelay"
              /\ (selection = "MQTT" \/ ~is_selection_enabled(selection))) =>
                 ENABLED (DelayPress(up) /\ UNCHANGED <<delayVars, flagVars>>))
    /\ [][\A i \in Intervals :
             IntervalAfter(i) # IntervalOf(i) =>
                 /\ ui_state = "ModifyingDelay"
                 /\ selection = i
                 /\ is_selection_enabled(i)
                 /\ flagVars' = flagVars]_cfgVars

\* C40 witness: the contact interval was raised while the contact sensor was
\* enabled, the sensor was then disabled, and the ModifyingDelay screen is
\* still on it; the DHT is disabled too
C40_Witness ==
    /\ ui_state = "ModifyingDelay"
    /\ selection = "Contact"
    /\ ~enabled["ContactSensor"]
    /\ read_delay["ContactSensor"] = GENERIC_MIN_READ_DELAY + 1
    /\ ~dht_enabled

----------------------------------------------------------------------------
\* The two sensors on the mailbox of one slot

----------------------------------------------------------------------------
\* The DHT part of the tick

DhtTopics == {"Temperature", "Humidity"}
HasDhtRequest(q) == \E i \in 1..Len(q) : q[i].topic \in DhtTopics

\* C32: the tick passes a temperature and a humidity request to Ui::send only
\* when read_with_retry(3) returned a reading, which is one whose frame passed
\* the checksum test, the temperature first and the humidity second; when
\* read_with_retry(3) returned an error the tick passes neither, keeps the
\* current values and the DHT read tracker as they were and goes on with the
\* motion and contact parts.
C32_ValidatedOnly ==
    /\ [][(tick_pc = "dht" /\ tick_pc' = "none") =>
             IF ret[1] = "Ok"
             THEN /\ buffer[5] = Sum4(buffer) % 256
                  /\ \E m \in BOOLEAN, c \in BOOLEAN :
                        ui_todo' = <<MqttMessage(0, "Temperature", buffer[3]),
                                     MqttMessage(0, "Humidity", buffer[1])>>
                                   \o TickRequests(<<>>, m, c)
                  /\ current_values' = [temperature |-> buffer[3], humidity |-> buffer[1]]
             ELSE /\ \E m \in BOOLEAN, c \in BOOLEAN :
                        ui_todo' = TickRequests(<<>>, m, c)
                  /\ current_values' = current_values
                  /\ dht_tracker' = dht_tracker]_tickSpecVars
    /\ [][(Len(ui_todo') > Len(ui_todo) /\ HasDhtRequest(ui_todo')) =>
             (tick_pc = "dht" /\ ret # <<>> /\ ret[1] = "Ok")]_tickSpecVars
    /\ [][(Len(cmdq') > Len(cmdq) /\ cmdq'[Len(cmdq')].topic = "Humidity") =>
             (Len(cmdq) > 0 /\ cmdq[Len(cmdq)].topic = "Temperature")]_tickSpecVars

\* after a reading was taken at second 2, the read due at second 4 failed three
\* times: the tick kept the values and the tracker and reported the motion
\* silence that was due
C32_Witness ==
    /\ tick_pc = "none"
    /\ handling = <<"Tick">>
    /\ ret = <<"Err", "ChecksumMismatch">>
    /\ Len(errs) = TICK_RETRIES
    /\ ui_todo = <<MqttMessage(0, "Motion", 0)>>
    /\ current_values = [temperature |-> 21, humidity |-> 40]
    /\ dht_tracker = [time |-> 2, handled |-> FALSE]
    /\ ui_now = 4

----------------------------------------------------------------------------
\* Termination of the flushing loop

\* nothing for the session manager to send
NoWork == cmdq = <<>> /\ cached_message = <<>> /\ msg = <<>>

\* C29: the session manager never stays in the receive of its flushing loop:
\* with nothing cached and an empty mailbox the wait ends (after its 5 s) and
\* ends the round, the task is back at the 500 ms sleep before the reconnect
\* stage with the keep-alive due; as long as no work arrives the task is at the
\* start of a round again and again.
C29_DrainTerminates ==
    /\ (pc = "recv" /\ cmdq = <<>>) ~> (pc = "sleep" \/ cmdq # <<>>)
    /\ [][(pc = "recv" /\ cmdq = <<>> /\ pc' # pc) =>
             (pc' = "sleep" /\ idle5' /\ UNCHANGED <<cmdq, cached_message, msg>>)]_vars
    /\ [](pc = "recv" => cached_message = <<>>)
    /\ ([]<>(~NoWork) \/ []<>(pc = "sleep"))

\* every request was sent, the flushing loop then found the mailbox empty and
\* timed out: the task is at the start of a round on a live session with the
\* keep-alive due
C29_Witness ==
    /\ pc = "sleep"
    /\ idle5
    /\ ~should_reconnect
    /\ MQTT_ENABLED
    /\ NoWork
    /\ nextId = MaxLive + 1
    /\ lastOk = MaxLive
    /\ session = "Connected"

----------------------------------------------------------------------------
\* Termination of Dht11::read

InRead == dpc \in {"reset", "wait_low1", "wait_high", "wait_low2", "data", "tail"}
IsErr(r) == Len(r) = 2 /\ r[1] = "Err"
AllOnes == [k \in 1..DHT_BUFFER_SIZE |-> 255]

\* every wait for a level and every pulse measurement ends with the timeout at
\* the latest: a level that never comes ends the read with an error and the
\* critical section with it, a pulse that never ends is measured as one past
\* the 100 us cap and read as a 1 with no error
BoundedWaits ==
    /\ [][(waited' = 1000 /\ dpc \in {"wait_low1", "wait_high", "wait_low2", "data"}) =>
             (IsErr(read_result') /\ ~cs' /\ buffer' = buffer)]_dhtVars
    /\ [][(dpc = "data" /\ read_result' = <<>>) =>
             /\ high_time' <= 101
             /\ high_time' = 101 =>
                   (BitOf(buffer'[byte + 1], bit) = 1 /\ dpc' \in {"data", "tail"})]_dhtVars
    /\ [](cs => dpc \in {"wait_low1", "wait_high", "wait_low2", "data", "tail"})
    /\ [](InRead => ENABLED <<NextDhtOf(StuckFrames, 1)>>_<<dpc, byte, bit>>)

\* a line that stays high from the end of the handshake on gives forty pulses
\* at the cap, a buffer of five bytes 255; the read then ends with an error
StuckHighFails ==
    [][(dpc = "tail" /\ buffer = AllOnes /\ high_time = 101) => IsErr(read_result')]_dhtVars

\* C30: Dht11::read ends whatever the line does: every wait for a level and
\* every pulse measurement is bounded by its timeout, a line that stays high
\* during a data bit is measured up to the 100 us cap and read as a 1 without an
\* error, and a line that stays at one level after the handshake ends the read
\* with an error value, never with a hang inside the critical section.
C30_ReadTerminates == BoundedWaits /\ StuckHighFails

----------------------------------------------------------------------------
\* Properties of the downstream service

\* a mail for the topic was accepted by the relay less than COOLDOWN_DURATION
\* before the instant now
SentWithin(topic, now) ==
    \E e \in sentLog : e[1] = topic /\ now < e[2] + COOLDOWN_DURATION

WantsAlert(m) ==
    m.topic \in AlertTopics /\ ParseI32(m.payload) = <<1>>

\* C28: the service attempts a notification only for a publish on esp32/motion
\* or esp32/contact whose payload is the value 1, and only if no mail for that
\* topic was accepted during the 600 s before; it skips such a publish only
\* because of a mail accepted for the same topic (the two cooldowns are
\* independent), and an attempt that failed leaves no cooldown behind.
C28_Cooldown ==
    /\ srv_msg.outcome = "mailing" =>
            WantsAlert(srv_msg) /\ ~SentWithin(srv_msg.topic, srv_msg.at)
    /\ srv_msg.outcome = "cooldown" =>
            WantsAlert(srv_msg) /\ SentWithin(srv_msg.topic, srv_msg.at)
    /\ srv_msg.outcome \in {"stored", "unknown"} => ~WantsAlert(srv_msg)
    /\ srv_msg.outcome = "failed" => ~CooldownActive(srv_msg.topic, srv_msg.at)
    /\ \A topic \in DOMAIN LAST_SENT_TIMES : <<topic, LAST_SENT_TIMES[topic]>> \in sentLog
    /\ \A e \in sentLog : e[1] \in AlertTopics

\* a motion notification is attempted again 600 s after the last one, after a
\* failed attempt in between, while the cooldown of esp32/contact is running
C28_Witness ==
    /\ srv_msg.outcome = "mailing"
    /\ srv_msg.topic = "esp32/motion"
    /\ <<"esp32/motion", srv_msg.at - COOLDOWN_DURATION>> \in sentLog
    /\ SentWithin("esp32/contact", srv_msg.at)

============================================================================
